---- MODULE Spec2Model ----
(***************************************************************************)
(* A model of the Ngineer workspace: the Newton-Raphson solvers of         *)
(* geqslib (src/geqslib/src/newton.rs) and the nodal-analysis study of     *)
(* neapolitan (src/neapolitan/src/lib.rs and its element constructors).    *)
(*                                                                         *)
(* f64 values are modelled as extended rationals <<n, d>>: d > 0 is the    *)
(* reduced fraction n/d, <<1,0>> is +inf, <<-1,0>> is -inf and <<0,0>> is  *)
(* NaN.  Arithmetic is exact (no rounding); zero is unsigned and a zero    *)
(* divisor counts as +0.0, which is what the closures of this model        *)
(* produce (a difference of two equal finite values is +0.0).              *)
(***************************************************************************)
EXTENDS Integers, Sequences, FiniteSets, TLC

VARIABLES nr, mnr, phase, nodes, elements, op, solves, grounded, scenario,
          dropped, ffi, cli

vars == <<nr, mnr, phase, nodes, elements, op, solves, grounded, scenario,
          dropped, ffi, cli>>

\* no foreign call made yet
NoCall == [fn |-> "none", ptrs |-> <<>>, outcome |-> "ok", ret |-> "void", unwound |-> FALSE]

\* a foreign caller that holds no handle
FfiIdle == [next |-> 1, heap |-> {}, owned |-> {}, maps |-> {}, call |-> NoCall, ub |-> FALSE]

\* no process of the command line tool
CliIdle ==
    [pc |-> "none", args |-> <<>>, i |-> 0, precision |-> "None", iteration_limit |-> "None",
     passed |-> {}, written |-> FALSE, exit |-> "none"]

\* every node is owned, nothing is called from foreign code or the command line
Elsewhere == dropped = {} /\ ffi = FfiIdle /\ cli = CliIdle

(***************************************************************************)
(* f64 arithmetic                                                          *)
(***************************************************************************)
IAbs(n) == IF n < 0 THEN -n ELSE n

ISgn(n) == IF n < 0 THEN -1 ELSE IF n > 0 THEN 1 ELSE 0

RECURSIVE GCD(_, _)
GCD(a, b) == IF b = 0 THEN a ELSE GCD(b, a % b)

\* the reduced fraction n/d, d # 0
Q(n, d) ==
    LET g == GCD(IAbs(n), IAbs(d))
        s == IF d < 0 THEN -1 ELSE 1
    IN  <<(s * n) \div g, (s * d) \div g>>

Zero == <<0, 1>>

One == <<1, 1>>

PInf == <<1, 0>>

NInf == <<-1, 0>>

NaN == <<0, 0>>

IsNaN(a) == a = NaN

IsFin(a) == a[2] # 0

XNeg(a) == <<-a[1], a[2]>>

XAbs(a) == <<IAbs(a[1]), a[2]>>

XAdd(a, b) ==
    IF IsNaN(a) \/ IsNaN(b) THEN NaN
    ELSE IF ~IsFin(a) THEN (IF ~IsFin(b) /\ b # a THEN NaN ELSE a)
    ELSE IF ~IsFin(b) THEN b
    ELSE LET g == GCD(a[2], b[2])
         IN  Q(a[1] * (b[2] \div g) + b[1] * (a[2] \div g), (a[2] \div g) * b[2])

XSub(a, b) == XAdd(a, XNeg(b))

XMul(a, b) ==
    IF IsNaN(a) \/ IsNaN(b) THEN NaN
    ELSE IF ~IsFin(a) \/ ~IsFin(b)
         THEN (IF a[1] = 0 \/ b[1] = 0 THEN NaN ELSE <<ISgn(a[1]) * ISgn(b[1]), 0>>)
    ELSE LET g1 == GCD(IAbs(a[1]), b[2])
             g2 == GCD(IAbs(b[1]), a[2])
         IN  Q((a[1] \div g1) * (b[1] \div g2), (a[2] \div g2) * (b[2] \div g1))

XDiv(a, b) ==
    IF IsNaN(a) \/ IsNaN(b) THEN NaN
    ELSE IF ~IsFin(b) THEN (IF ~IsFin(a) THEN NaN ELSE Zero)
    ELSE IF b[1] = 0 THEN (IF a[1] = 0 THEN NaN ELSE <<ISgn(a[1]), 0>>)
    ELSE IF ~IsFin(a) THEN <<ISgn(a[1]) * ISgn(b[1]), 0>>
    ELSE XMul(a, Q(b[2], b[1]))

\* n1/d1 < n2/d2 for d1, d2 > 0, by continued fractions (no products)
RECURSIVE FracLt(_, _, _, _)
FracLt(n1, d1, n2, d2) ==
    LET q1 == n1 \div d1
        q2 == n2 \div d2
        r1 == n1 % d1
        r2 == n2 % d2
    IN  IF q1 # q2 THEN q1 < q2
        ELSE IF r2 = 0 THEN FALSE
        ELSE IF r1 = 0 THEN TRUE
        ELSE FracLt(d2, r2, d1, r1)

\* a < b on f64: false when either side is NaN
XLt(a, b) ==
    IF IsNaN(a) \/ IsNaN(b) \/ a = b THEN FALSE
    ELSE IF ~IsFin(a) THEN a = NInf
    ELSE IF ~IsFin(b) THEN b = PInf
    ELSE FracLt(a[1], a[2], b[1], b[2])

\* a <= b on f64: false when either side is NaN
XLe(a, b) == ~IsNaN(a) /\ ~IsNaN(b) /\ (a = b \/ XLt(a, b))

\* v.powi(2)
XSq(a) == XMul(a, a)

\* s.sqrt() <= m, for s >= 0 or NaN and m > 0: the square root is monotone
SqrtLe(s, m) == XLe(s, XSq(m))

RECURSIVE SumSq(_)
SumSq(s) == IF s = <<>> THEN Zero ELSE XAdd(XSq(Head(s)), SumSq(Tail(s)))

(***************************************************************************)
(* Residual functions handed to the solvers.  A residual is a caller's     *)
(* closure Fn(..) -> Result<f64, E>; the model draws them from the family  *)
(*   a * t(x) + c * t(y) + b,  t = abs or the identity,                    *)
(* failing (Err) when a variable they read is missing from the map or      *)
(* when x < lo or x > hi.                                                  *)
(***************************************************************************)
_DX_ == <<1, 1000>>

Term(f, v) == XMul(f.a, IF f.abs THEN XAbs(v) ELSE v)

\* f(x) of a closure of one variable: [ok, val]
Eval1(f, x) ==
    IF XLt(x, f.lo) \/ XLt(f.hi, x) THEN [ok |-> FALSE, val |-> NaN]
    ELSE [ok |-> TRUE, val |-> XAdd(Term(f, x), f.b)]

(***************************************************************************)
(* newton_raphson: one action per (recursive) call                         *)
(***************************************************************************)
NRIdle == [pc |-> "idle", f |-> <<>>,
           guess |-> Zero, margin |-> One, limit |-> 0, result |-> "none",
           evals |-> 0, iters |-> 0, guess0 |-> Zero, limit0 |-> 0]

NRStart(f, guess, margin, limit) ==
    [pc |-> "call", f |-> f, guess |-> guess, margin |-> margin, limit |-> limit,
     result |-> "none", evals |-> 0, iters |-> 0, guess0 |-> guess, limit0 |-> limit]

\* (f(guess + _DX_)? - y) / _DX_
YPrime(y, y2) == XDiv(XSub(y2, y), _DX_)

\* y.abs() <= margin && delta <= margin
NRConverged(y, delta, margin) == XLe(XAbs(y), margin) /\ XLe(delta, margin)

NRReturn(s, res) == [s EXCEPT !.pc = "done", !.result = res]

NRCall(s) ==
    LET c  == [s EXCEPT !.iters = @ + 1]
        r1 == Eval1(s.f, s.guess)
        r2 == Eval1(s.f, XAdd(s.guess, _DX_))
        y  == r1.val
        delta == XDiv(y, YPrime(y, r2.val))
    IN  IF XLe(s.margin, Zero) THEN NRReturn(s, "NegativeMargin")
        ELSE IF s.limit = 0 THEN NRReturn(s, "ReachedIterationLimit")
        ELSE IF ~r1.ok THEN NRReturn([c EXCEPT !.evals = @ + 1], "ClosureError")
        ELSE IF ~r2.ok THEN NRReturn([c EXCEPT !.evals = @ + 2], "ClosureError")
        ELSE IF NRConverged(y, delta, s.margin)
             THEN NRReturn([c EXCEPT !.evals = @ + 2], "Ok")
        ELSE [c EXCEPT !.evals = @ + 2, !.guess = XSub(s.guess, delta),
                       !.limit = s.limit - 1]

newton_raphson ==
    /\ nr.pc = "call"
    /\ nr' = NRCall(nr)
    /\ UNCHANGED <<mnr, phase, nodes, elements, op, solves, grounded, scenario, dropped, ffi, cli>>

(***************************************************************************)
(* Matrix (gmatlib): a sequence of rows.                                   *)
(***************************************************************************)
Identity(n) == [i \in 1..n |-> [k \in 1..n |-> IF i = k THEN One ELSE Zero]]

\* the first row at or below k with the largest |value| in column k
PivotRow(M, k, n) ==
    CHOOSE p \in k..n :
        /\ \A r \in k..n : XLe(XAbs(M[r][k]), XAbs(M[p][k]))
        /\ \A r \in k..(p - 1) : XAbs(M[r][k]) # XAbs(M[p][k])

RowScale(row, c) == [x \in 1..Len(row) |-> XMul(row[x], c)]

RowSubScaled(row, c, piv) == [x \in 1..Len(row) |-> XSub(row[x], XMul(c, piv[x]))]

\* Gauss-Jordan with partial pivoting on the augmented matrix; <<>> on failure
RECURSIVE GaussJordan(_, _, _)
GaussJordan(M, k, n) ==
    IF k > n THEN M
    ELSE LET p == PivotRow(M, k, n)
         IN  IF M[p][k] = Zero THEN <<>>
             ELSE LET S   == [M EXCEPT ![k] = M[p], ![p] = M[k]]
                      piv == RowScale(S[k], XDiv(One, S[k][k]))
                      E   == [r \in 1..n |->
                                 IF r = k THEN piv ELSE RowSubScaled(S[r], S[r][k], piv)]
                  IN  GaussJordan(E, k + 1, n)

\* Matrix::try_inplace_invert: [ok, m]
TryInplaceInvert(A) ==
    LET n   == Len(A)
        aug == [i \in 1..n |-> A[i] \o Identity(n)[i]]
        R   == GaussJordan(aug, 1, n)
    IN  IF n > 0 /\ R = <<>> THEN [ok |-> FALSE, m |-> A]
        ELSE [ok |-> TRUE, m |-> [i \in 1..n |-> SubSeq(R[i], n + 1, 2 * n)]]

RECURSIVE Dot(_, _)
Dot(r, v) == IF r = <<>> THEN Zero ELSE XAdd(XMul(Head(r), Head(v)), Dot(Tail(r), Tail(v)))

\* jacobian * Matrix::from_col_vec(y)
MatVec(M, v) == [i \in 1..Len(M) |-> Dot(M[i], v)]

(***************************************************************************)
(* The network: nodes and elements (neapolitan).  A node is                *)
(* [potential, inputs, outputs, is_locked]; an element is                  *)
(* [gain, input_node, output_node, flux_calc, drives_output].  Nodes and   *)
(* elements are named by their position (from 1) in the study's vectors.   *)
(* RefCell borrows: `held` is the set of nodes on which a shared borrow is *)
(* outstanding (the nodes whose flux discrepancy is being computed).       *)
(***************************************************************************)
VAdd(u, v) == [c \in 1..Len(u) |-> XAdd(u[c], v[c])]

VSub(u, v) == [c \in 1..Len(u) |-> XSub(u[c], v[c])]

VScale(u, k) == [c \in 1..Len(u) |-> XMul(u[c], k)]

VZero(n) == [c \in 1..n |-> Zero]

\* GenericNode::new
NewNode == [potential |-> <<One>>, inputs |-> <<>>, outputs |-> <<>>, is_locked |-> FALSE]

FluxErr(e, N) == [ok |-> FALSE, err |-> e, val |-> <<>>, nodes |-> N]

FluxOk(v, N) == [ok |-> TRUE, err |-> "", val |-> v, nodes |-> N]

\* mutant: the difference is taken from the output to the input
normal_flux_Reversed(el, N) ==
    FluxOk(VScale(VSub(N[el.output_node].potential, N[el.input_node].potential), el.gain[1]), N)

\* normal_flux: (inode.potential - onode.potential) scaled by gain[(0, 0)]
normal_flux(el, N) ==
    FluxOk(VScale(VSub(N[el.input_node].potential, N[el.output_node].potential), el.gain[1]), N)

\* constant_flux
constant_flux(el, N) == FluxOk(el.gain, N)

\* the node an observed element writes, and the node it reads
SubNode(el) == IF el.drives_output THEN el.output_node ELSE el.input_node

DomNode(el) == IF el.drives_output THEN el.input_node ELSE el.output_node

\* the potential observe_flux assigns to the submissive node
ObservedPotential(el, N) ==
    IF el.drives_output THEN VAdd(N[el.input_node].potential, el.gain)
    ELSE VSub(N[el.output_node].potential, el.gain)

\* the borrows of observe_flux (try_borrow_mut on the submissive node, try_borrow
\* on the dominant one): "" when both succeed
ObserveBorrows(el, held) ==
    IF SubNode(el) \in held THEN "BorrowMutError"
    ELSE IF DomNode(el) = SubNode(el) THEN "BorrowError"
    ELSE ""

\* lines 31-55 of observe_flux: the write of the submissive node's potential
ObserveWrite(el, N) == [N EXCEPT ![SubNode(el)].potential = ObservedPotential(el, N)]

\* mutant: a failed borrow is not reported, the flux is taken for zero
observe_flux_Swallows(el, N, held, disc) ==
    IF ObserveBorrows(el, held) # "" THEN FluxOk(VZero(Len(el.gain)), N)
    ELSE IF ~disc.ok THEN disc
    ELSE FluxOk(VScale(disc.val, <<-1, 1>>), disc.nodes)

\* observe_flux; disc is sub_ref.try_borrow()?.get_flux_discrepancy(), evaluated
\* after the write
observe_flux(el, N, held, disc) ==
    IF ObserveBorrows(el, held) # "" THEN FluxErr(ObserveBorrows(el, held), N)
    ELSE IF ~disc.ok THEN disc
    ELSE FluxOk(VScale(disc.val, <<-1, 1>>), disc.nodes)

\* the elements of a node's balance in evaluation order: the inputs, added,
\* then the outputs, subtracted
Incident(node) ==
    [i \in 1..Len(node.inputs) |-> <<1, node.inputs[i]>>]
    \o [i \in 1..Len(node.outputs) |-> <<-1, node.outputs[i]>>]

\* acc + the signed sum of elem.get_flux()? over todo, in order, threading the
\* nodes (observe_flux writes them) and stopping at the first Err; get_flux of
\* an element fails if one of its Weak references does not upgrade
RECURSIVE Balance(_, _, _, _, _)
Balance(todo, acc, N, els, held) ==
    IF todo = <<>> THEN FluxOk(acc, N)
    ELSE LET el == els[Head(todo)[2]]
             r  == CASE el.input_node \in dropped \/ el.output_node \in dropped ->
                          FluxErr("NodeRefsAlreadyDropped", N)
                     [] el.flux_calc = "normal_flux"   -> normal_flux(el, N)
                     [] el.flux_calc = "constant_flux" -> constant_flux(el, N)
                     [] el.flux_calc = "observe_flux"  ->
                          observe_flux(el, N, held,
                              IF ObserveBorrows(el, held) # "" THEN FluxErr("", N)
                              ELSE Balance(Incident(N[SubNode(el)]),
                                           VZero(Len(N[SubNode(el)].potential)),
                                           ObserveWrite(el, N), els,
                                           held \cup {SubNode(el)}))
         IN  IF ~r.ok THEN r
             ELSE Balance(Tail(todo), VAdd(acc, VScale(r.val, <<Head(todo)[1], 1>>)),
                          r.nodes, els, held)

\* GenericNode::get_flux_discrepancy of node k (inputs - outputs)
get_flux_discrepancy(k, N, els, held) ==
    Balance(Incident(N[k]), VZero(Len(N[k].potential)), N, els, held)

\* GenericElement::get_flux (the nodes of a study are never dropped)
get_flux(e, N, els, held) ==
    Balance(<< <<1, e>> >>, VZero(Len(N[els[e].input_node].potential)), N, els, held)

(***************************************************************************)
(* Residual closures of several variables: [ok, val, nodes]                *)
(***************************************************************************)
\* a closure a*t(x) + c*t(y) + b over the keys "x" and "y"
EvalPoly(f, X, N) ==
    LET needX == f.a # Zero
        needY == f.c # Zero
        tx == IF needX /\ "x" \in DOMAIN X THEN Term(f, X["x"]) ELSE Zero
        ty == IF needY /\ "y" \in DOMAIN X
              THEN XMul(f.c, IF f.abs THEN XAbs(X["y"]) ELSE X["y"]) ELSE Zero
    IN  IF \/ (needX /\ "x" \notin DOMAIN X)
           \/ (needY /\ "y" \notin DOMAIN X)
           \/ ("x" \in DOMAIN X /\ (XLt(X["x"], f.lo) \/ XLt(f.hi, X["x"])))
        THEN [ok |-> FALSE, val |-> NaN, nodes |-> N]
        ELSE [ok |-> TRUE, val |-> XAdd(XAdd(tx, ty), f.b), nodes |-> N]

\* "Set values of all nodes": every entry of x is written into its node
SetPotentials(X, N) ==
    [k \in 1..Len(N) |->
        [N[k] EXCEPT !.potential =
            [c \in 1..Len(N[k].potential) |->
                IF <<k, c>> \in DOMAIN X THEN X[<<k, c>>] ELSE N[k].potential[c]]]]

\* the closure generate_system builds for node i, component j
EvalNode(f, X, N, els) ==
    LET r == get_flux_discrepancy(f.i, SetPotentials(X, N), els, {f.i})
    IN  IF r.ok THEN [ok |-> TRUE, val |-> r.val[f.j], nodes |-> r.nodes]
        ELSE [ok |-> FALSE, val |-> NaN, nodes |-> r.nodes]

EvalF(f, X, N, els) ==
    IF f.kind = "node" THEN EvalNode(f, X, N, els) ELSE EvalPoly(f, X, N)

\* the closures of fs applied in order to X, stopping at the first Err:
\* [ok, vals, nodes]; Len(vals) counts the successful evaluations
RECURSIVE EvalAll(_, _, _, _, _)
EvalAll(fs, X, N, els, acc) ==
    IF fs = <<>> THEN [ok |-> TRUE, vals |-> acc, nodes |-> N]
    ELSE LET r == EvalF(Head(fs), X, N, els)
         IN  IF ~r.ok THEN [ok |-> FALSE, vals |-> acc, nodes |-> r.nodes]
             ELSE EvalAll(Tail(fs), X, r.nodes, els, Append(acc, r.val))

(***************************************************************************)
(* multivariate_newton_raphson.  One call of the function is the steps     *)
(* check, build, (perturb, column, restore) per variable, invert,          *)
(* residual, test; the tail call at the end re-enters check with           *)
(* limit - 1.  `vars` is the iteration order of the guess map's keys,      *)
(* which is arbitrary but the same for every call on one map.              *)
(***************************************************************************)
MNRIdle == [pc |-> "idle", f |-> <<>>, guess |-> <<>>, margin |-> One, limit |-> 0,
            result |-> "none", evals |-> 0, iters |-> 0, vars |-> <<>>,
            jacobian |-> <<>>, j |-> 0, y |-> <<>>, deltas |-> <<>>,
            guess0 |-> <<>>, limit0 |-> 0, iterGuess |-> <<>>]

MNRStart(f, guess, margin, limit, order) ==
    [MNRIdle EXCEPT !.pc = "check", !.f = f, !.guess = guess, !.margin = margin,
                    !.limit = limit, !.vars = order, !.guess0 = guess,
                    !.limit0 = limit, !.iterGuess = guess]

MNRReturn(s, res) == [s EXCEPT !.pc = "done", !.result = res]

\* mutant: the size of the system is checked before margin and limit
MNRCheck_SizeFirst(s) ==
    IF Cardinality(DOMAIN s.guess) # Len(s.f)
    THEN MNRReturn(s, "ImproperlyConstrainedSystem")
    ELSE IF XLe(s.margin, Zero) THEN MNRReturn(s, "NegativeMargin")
    ELSE IF s.limit = 0 THEN MNRReturn(s, "ReachedIterationLimit")
    ELSE [s EXCEPT !.pc = "build", !.iters = @ + 1, !.iterGuess = s.guess]

\* mutant: only a system with too few closures is rejected
MNRCheck_TooFewOnly(s) ==
    IF XLe(s.margin, Zero) THEN MNRReturn(s, "NegativeMargin")
    ELSE IF s.limit = 0 THEN MNRReturn(s, "ReachedIterationLimit")
    ELSE IF Cardinality(DOMAIN s.guess) > Len(s.f)
         THEN MNRReturn(s, "ImproperlyConstrainedSystem")
    ELSE [s EXCEPT !.pc = "build", !.iters = @ + 1, !.iterGuess = s.guess]

\* lines 107-124: the argument checks
MNRCheck(s) ==
    IF XLe(s.margin, Zero) THEN MNRReturn(s, "NegativeMargin")
    ELSE IF s.limit = 0 THEN MNRReturn(s, "ReachedIterationLimit")
    ELSE IF Cardinality(DOMAIN s.guess) # Len(s.f)
         THEN MNRReturn(s, "ImproperlyConstrainedSystem")
    ELSE [s EXCEPT !.pc = "build", !.iters = @ + 1, !.iterGuess = s.guess]

\* lines 126-138: F(X) repeated along each row of the jacobian.  zero_ok is
\* whether Matrix::from_vec accepts a matrix of no columns.
MNRBuild(s, r, zero_ok) ==
    LET n == Len(s.f)
    IN  IF ~r.ok THEN MNRReturn([s EXCEPT !.evals = @ + Len(r.vals) + 1], "ClosureError")
        ELSE IF n = 0
             THEN (IF zero_ok THEN [s EXCEPT !.pc = "invert", !.jacobian = <<>>, !.j = 0]
                   ELSE MNRReturn(s, "MatrixError"))
        ELSE [s EXCEPT !.pc = "perturb", !.evals = @ + n, !.j = 1,
                       !.jacobian = [i \in 1..n |-> [k \in 1..n |-> r.vals[i]]]]

\* *v += _DX_
Perturb(X, key) == [X EXCEPT ![key] = XAdd(@, _DX_)]

\* *v -= _DX_
Restore(X, key) == [X EXCEPT ![key] = XSub(@, _DX_)]

\* lines 143-146
MNRPerturb(s) == [s EXCEPT !.pc = "column", !.guess = Perturb(s.guess, s.vars[s.j])]

\* mutant: the perturbation is undone before the error of a closure is returned
MNRColumn_Restores(s, r) ==
    LET n == Len(s.f)
    IN  IF ~r.ok THEN MNRReturn([s EXCEPT !.evals = @ + Len(r.vals) + 1,
                                          !.guess = Restore(s.guess, s.vars[s.j])],
                                "ClosureError")
        ELSE [s EXCEPT !.pc = "restore", !.evals = @ + n,
                       !.jacobian = [i \in 1..n |->
                           [s.jacobian[i] EXCEPT
                               ![s.j] = XDiv(XSub(r.vals[i], @), _DX_)]]]

\* lines 147-151: jacobian[(i, j)] = (f[i](guess)? - jacobian[(i, j)]) / _DX_
MNRColumn(s, r) ==
    LET n == Len(s.f)
    IN  IF ~r.ok THEN MNRReturn([s EXCEPT !.evals = @ + Len(r.vals) + 1], "ClosureError")
        ELSE [s EXCEPT !.pc = "restore", !.evals = @ + n,
                       !.jacobian = [i \in 1..n |->
                           [s.jacobian[i] EXCEPT
                               ![s.j] = XDiv(XSub(r.vals[i], @), _DX_)]]]

\* lines 152-156
MNRRestore(s) ==
    [s EXCEPT !.guess = Restore(s.guess, s.vars[s.j]),
              !.j = @ + 1,
              !.pc = IF s.j = Len(s.vars) THEN "invert" ELSE "perturb"]

\* line 158
MNRInvert(s) ==
    LET inv == TryInplaceInvert(s.jacobian)
    IN  IF ~inv.ok THEN MNRReturn(s, "MatrixInversionError")
        ELSE [s EXCEPT !.pc = "residual", !.jacobian = inv.m]

\* lines 160-165
MNRResidual(s, r) ==
    IF ~r.ok THEN MNRReturn([s EXCEPT !.evals = @ + Len(r.vals) + 1], "ClosureError")
    ELSE [s EXCEPT !.pc = "test", !.evals = @ + Len(s.f), !.y = r.vals]

\* mutant: the change is compared without its square root
MNRConverged_NoSqrt(y, deltas, margin) ==
    XLe(SumSq(y), margin) /\ XLe(SumSq(deltas), margin)

\* error <= margin && change <= margin
MNRConverged(y, deltas, margin) ==
    XLe(SumSq(y), margin) /\ SqrtLe(SumSq(deltas), margin)

\* the position of key in the order vars
IndexOf(order, key) == CHOOSE i \in 1..Len(order) : order[i] = key

\* mutant: the step is added
ApplyStep_Adds(X, order, deltas) ==
    [k \in DOMAIN X |-> XAdd(X[k], deltas[IndexOf(order, k)])]

\* mutant: the steps are applied in the reverse of the order of the columns
ApplyStep_Reversed(X, order, deltas) ==
    [k \in DOMAIN X |-> XSub(X[k], deltas[Len(order) + 1 - IndexOf(order, k)])]

\* lines 182-189: *guess_val -= delta
ApplyStep(X, order, deltas) ==
    [k \in DOMAIN X |-> XSub(X[k], deltas[IndexOf(order, k)])]

\* mutant: the tail call passes limit instead of limit - 1
MNRTest_SameLimit(s) ==
    LET deltas == MatVec(s.jacobian, s.y)
    IN  IF MNRConverged(s.y, deltas, s.margin)
        THEN MNRReturn([s EXCEPT !.deltas = deltas], "Ok")
        ELSE [s EXCEPT !.pc = "check", !.deltas = deltas,
                       !.guess = ApplyStep(s.guess, s.vars, deltas)]

\* lines 166-192
MNRTest(s) ==
    LET deltas == MatVec(s.jacobian, s.y)
    IN  IF MNRConverged(s.y, deltas, s.margin)
        THEN MNRReturn([s EXCEPT !.deltas = deltas], "Ok")
        ELSE [s EXCEPT !.pc = "check", !.deltas = deltas,
                       !.guess = ApplyStep(s.guess, s.vars, deltas),
                       !.limit = s.limit - 1]

Check ==
    /\ mnr.pc = "check"
    /\ mnr' = MNRCheck(mnr)
    /\ UNCHANGED <<nr, phase, nodes, elements, op, solves, grounded, scenario, dropped, ffi, cli>>

Build ==
    /\ mnr.pc = "build"
    /\ LET r == EvalAll(mnr.f, mnr.guess, nodes, elements, <<>>)
       IN  /\ \E zero_ok \in BOOLEAN : mnr' = MNRBuild(mnr, r, zero_ok)
           /\ nodes' = r.nodes
    /\ UNCHANGED <<nr, phase, elements, op, solves, grounded, scenario, dropped, ffi, cli>>

PerturbStep ==
    /\ mnr.pc = "perturb"
    /\ mnr' = MNRPerturb(mnr)
    /\ UNCHANGED <<nr, phase, nodes, elements, op, solves, grounded, scenario, dropped, ffi, cli>>

Column ==
    /\ mnr.pc = "column"
    /\ LET r == EvalAll(mnr.f, mnr.guess, nodes, elements, <<>>)
       IN  /\ mnr' = MNRColumn(mnr, r)
           /\ nodes' = r.nodes
    /\ UNCHANGED <<nr, phase, elements, op, solves, grounded, scenario, dropped, ffi, cli>>

RestoreStep ==
    /\ mnr.pc = "restore"
    /\ mnr' = MNRRestore(mnr)
    /\ UNCHANGED <<nr, phase, nodes, elements, op, solves, grounded, scenario, dropped, ffi, cli>>

Invert ==
    /\ mnr.pc = "invert"
    /\ mnr' = MNRInvert(mnr)
    /\ UNCHANGED <<nr, phase, nodes, elements, op, solves, grounded, scenario, dropped, ffi, cli>>

Residual ==
    /\ mnr.pc = "residual"
    /\ LET r == EvalAll(mnr.f, mnr.guess, nodes, elements, <<>>)
       IN  /\ mnr' = MNRResidual(mnr, r)
           /\ nodes' = r.nodes
    /\ UNCHANGED <<nr, phase, elements, op, solves, grounded, scenario, dropped, ffi, cli>>

Test ==
    /\ mnr.pc = "test"
    /\ mnr' = MNRTest(mnr)
    /\ UNCHANGED <<nr, phase, nodes, elements, op, solves, grounded, scenario, dropped, ffi, cli>>

multivariate_newton_raphson ==
    \/ Check
    \/ Build
    \/ PerturbStep
    \/ Column
    \/ RestoreStep
    \/ Invert
    \/ Residual
    \/ Test

(***************************************************************************)
(* The solver calls checked: the inputs of one call are drawn in the       *)
(* initial state.                                                          *)
(***************************************************************************)
MaxLimit == 3

Poly(a, c, b, abs, lo, hi) ==
    [kind |-> "poly", a |-> a, c |-> c, b |-> b, abs |-> abs, lo |-> lo, hi |-> hi]

Lin(a, c, b) == Poly(Q(a, 1), Q(c, 1), Q(b, 1), FALSE, NInf, PInf)

\* residuals of one variable (c is not read)
Functions1 ==
    { Poly(Q(1, 10), Zero, Zero, FALSE, NInf, PInf),   \* x / 10
      Lin(2, 0, -3),                                   \* 2x - 3
      Lin(0, 0, 1),                                    \* 1
      Lin(0, 0, 0),                                    \* 0
      Poly(One, Zero, One, TRUE, NInf, PInf),          \* |x| + 1
      Poly(Q(2, 1), Zero, Q(3, 1), FALSE, Zero, PInf)  \* 2x + 3, Err for x < 0
    }

Guesses1 == { Q(-1, 2000), Zero, One, Q(3, 1) }

Margins == { Q(-1, 1), Zero, Q(1, 10000), Q(1, 2) }

\* systems of residuals over the keys "x" and "y"
Systems ==
    { <<>>,
      << Lin(1, 0, 0) >>,                                       \* x
      << Lin(1, 1, -9) >>,                                      \* x + y - 9
      << Poly(One, Zero, One, TRUE, NInf, PInf) >>,             \* |x| + 1
      << Poly(Q(2, 1), Zero, Q(3, 1), FALSE, Zero, PInf) >>,    \* 2x + 3, Err for x < 0
      << Poly(One, Zero, Q(-2, 1), FALSE, NInf, One) >>,        \* x - 2, Err for x > 1
      << Lin(1, 1, -9), Lin(1, -1, -4) >>,                      \* the documented example
      << Lin(1, 1, -9), Lin(1, 1, -4) >>,                       \* singular
      << Poly(One, Zero, One, TRUE, NInf, PInf), Lin(0, 1, -2) >>, \* |x| + 1, y - 2
      << Poly(One, Zero, Q(-1, 1), FALSE, NInf, One), Lin(0, 1, -2) >> \* x - 1, Err for x > 1; y - 2
    }

MapX(x) == [k \in {"x"} |-> x]

MapXY(x, y) == [k \in {"x", "y"} |-> IF k = "x" THEN x ELSE y]

GuessMaps ==
    { <<>>, MapX(Q(1, 200)), MapX(Q(3, 5)), MapX(One), MapX(Q(3, 1)),
      MapXY(Q(7, 1), Q(2, 1)), MapXY(One, One), MapXY(Q(3, 5), One) }

\* the orders in which a map may iterate over its keys
Orders(S) == { o \in [1..Cardinality(S) -> S] : \A k \in S : \E i \in DOMAIN o : o[i] = k }

StudyIdle ==
    /\ phase = "Configure"
    /\ nodes = <<>>
    /\ elements = <<>>
    /\ op = [name |-> "none", args |-> <<>>, status |-> "none", potentials |-> <<>>, fluxes |-> <<>>]
    /\ solves = 0
    /\ grounded = {}
    /\ scenario = "none"
    /\ Elsewhere

InitNewton ==
    /\ \/ /\ \E f \in Functions1, g \in Guesses1, m \in Margins, l \in 0..MaxLimit :
                nr = NRStart(f, g, m, l)
          /\ mnr = MNRIdle
       \/ /\ \E f \in Systems, g \in GuessMaps, m \in Margins, l \in 0..MaxLimit :
                \E o \in Orders(DOMAIN g) : mnr = MNRStart(f, g, m, l, o)
          /\ nr = NRIdle
    /\ StudyIdle

NextNewton ==
    \/ newton_raphson
    \/ multivariate_newton_raphson

SpecNewton == InitNewton /\ [][NextNewton]_vars

(***************************************************************************)
(* Element constructors (dc_circuits.rs): [ok, err, nodes, elem].  id is   *)
(* the position the new element takes in the study's element vector.       *)
(***************************************************************************)
Push(list, id, flag) == IF flag THEN Append(list, id) ELSE list

NoElement(e, N) == [ok |-> FALSE, err |-> e, nodes |-> N, elem |-> <<>>]

\* mutant: the element records its endpoints the other way round
try_new_Flipped(N, gain, input, output, flux_calc, drives_output, cin, cout, id) ==
    IF input \in dropped \/ output \in dropped THEN NoElement("DroppedNodeError", N)
    ELSE LET N1 == [N EXCEPT ![input].outputs = Push(@, id, cin)]
             N2 == [N1 EXCEPT ![output].inputs = Push(@, id, cout)]
         IN  [ok |-> TRUE, err |-> "", nodes |-> N2,
              elem |-> [gain |-> gain, input_node |-> output, output_node |-> input,
                        flux_calc |-> flux_calc, drives_output |-> drives_output]]

\* mutant: the element is pushed to the inputs of its input node and to the
\* outputs of its output node
try_new_Swapped(N, gain, input, output, flux_calc, drives_output, cin, cout, id) ==
    IF input \in dropped \/ output \in dropped THEN NoElement("DroppedNodeError", N)
    ELSE LET N1 == [N EXCEPT ![input].inputs = Push(@, id, cin)]
             N2 == [N1 EXCEPT ![output].outputs = Push(@, id, cout)]
         IN  [ok |-> TRUE, err |-> "", nodes |-> N2,
              elem |-> [gain |-> gain, input_node |-> input, output_node |-> output,
                        flux_calc |-> flux_calc, drives_output |-> drives_output]]

\* mutant: the endpoints are used without upgrading the references
try_new_NoUpgrade(N, gain, input, output, flux_calc, drives_output, cin, cout, id) ==
    LET N1 == [N EXCEPT ![input].outputs = Push(@, id, cin)]
        N2 == [N1 EXCEPT ![output].inputs = Push(@, id, cout)]
    IN  [ok |-> TRUE, err |-> "", nodes |-> N2,
         elem |-> [gain |-> gain, input_node |-> input, output_node |-> output,
                   flux_calc |-> flux_calc, drives_output |-> drives_output]]

\* GenericElement::try_new: the element is pushed to its nodes if both Weak
\* references upgrade
try_new(N, gain, input, output, flux_calc, drives_output, cin, cout, id) ==
    IF input \in dropped \/ output \in dropped THEN NoElement("DroppedNodeError", N)
    ELSE LET N1 == [N EXCEPT ![input].outputs = Push(@, id, cin)]
             N2 == [N1 EXCEPT ![output].inputs = Push(@, id, cout)]
         IN  [ok |-> TRUE, err |-> "", nodes |-> N2,
              elem |-> [gain |-> gain, input_node |-> input, output_node |-> output,
                        flux_calc |-> flux_calc, drives_output |-> drives_output]]

\* mutant: the resistance is taken for the gain
resistor_Conductance(N, input, output, resistance, id) ==
    try_new(N, <<resistance[1]>>, input, output, "normal_flux", FALSE, TRUE, TRUE, id)

resistor(N, input, output, resistance, id) ==
    try_new(N, <<XDiv(One, resistance[1])>>, input, output, "normal_flux",
            FALSE, TRUE, TRUE, id)

\* lock_node, then set_node_potential(node, get_node_potential(other) + value[0])
LockAndPreset(N, node, other, value) ==
    LET L == [N EXCEPT ![node].is_locked = TRUE]
    IN  [L EXCEPT ![node].potential = VAdd(L[other].potential, <<value[1]>>)]

Driven(e, N, drives_output) ==
    [ok |-> e = "", err |-> e, nodes |-> N, drives_output |-> drives_output]

\* mutant: a source between two locked nodes is not refused, it drives its
\* input node
Drive_NoAbort(N, input, output, value) ==
    IF output \in dropped THEN Driven("DroppedNodeError", N, FALSE)
    ELSE IF N[output].is_locked
    THEN IF input \in dropped THEN Driven("DroppedNodeError", N, FALSE)
         ELSE Driven("", LockAndPreset(N, input, output, value), FALSE)
    ELSE IF input \in dropped
         THEN Driven("DroppedNodeError", [N EXCEPT ![output].is_locked = TRUE], TRUE)
         ELSE Driven("", LockAndPreset(N, output, input, value), TRUE)

\* lines 40-58 of voltage_source: the node the source drives is locked and
\* preset; is_locked, lock_node and get_node_potential fail on a dropped node,
\* in the order the code calls them
Drive(N, input, output, value) ==
    IF output \in dropped THEN Driven("DroppedNodeError", N, FALSE)
    ELSE IF N[output].is_locked
    THEN IF input \in dropped THEN Driven("DroppedNodeError", N, FALSE)
         ELSE IF N[input].is_locked THEN Driven("ElementCreationError", N, FALSE)
         ELSE Driven("", LockAndPreset(N, input, output, value), FALSE)
    ELSE IF input \in dropped
         THEN Driven("DroppedNodeError", [N EXCEPT ![output].is_locked = TRUE], TRUE)
         ELSE Driven("", LockAndPreset(N, output, input, value), TRUE)

voltage_source(N, input, output, voltage, id) ==
    LET d == Drive(N, input, output, voltage)
        drives_output == d.drives_output
    IN  IF ~d.ok THEN NoElement(d.err, d.nodes)
        ELSE try_new(d.nodes, voltage, input, output, "observe_flux", drives_output,
                     drives_output, ~drives_output, id)

current_source(N, input, output, current, id) ==
    try_new(N, current, input, output, "constant_flux", FALSE, TRUE, TRUE, id)

\* heat_transfer.rs: conductor takes k / l, or the length and the conductivity
conductor(N, input, output, length_and_conductivity, id) ==
    CASE Len(length_and_conductivity) = 1 ->
             try_new(N, length_and_conductivity, input, output, "normal_flux",
                     FALSE, TRUE, TRUE, id)
      [] Len(length_and_conductivity) = 2 ->
             try_new(N, <<XDiv(length_and_conductivity[2], length_and_conductivity[1])>>,
                     input, output, "normal_flux", FALSE, TRUE, TRUE, id)
      [] OTHER -> [ok |-> FALSE, err |-> "ConductorCreationError", nodes |-> N, elem |-> <<>>]

convection_interface(N, input, output, convection_coef, id) ==
    IF Len(convection_coef) # 1
    THEN [ok |-> FALSE, err |-> "ConvectionInterFaceCreationError", nodes |-> N, elem |-> <<>>]
    ELSE try_new(N, convection_coef, input, output, "normal_flux", FALSE, TRUE, TRUE, id)

\* mutant: the element is connected to both of its nodes
temperature_delta_ConnectsBoth(N, input, output, temp_delta, id) ==
    LET d == Drive(N, input, output, temp_delta)
        drives_output == d.drives_output
    IN  IF ~d.ok THEN NoElement(d.err, d.nodes)
        ELSE try_new(d.nodes, temp_delta, input, output, "observe_flux", drives_output,
                     TRUE, TRUE, id)

temperature_delta(N, input, output, temp_delta, id) ==
    LET d == Drive(N, input, output, temp_delta)
        drives_output == d.drives_output
    IN  IF ~d.ok THEN NoElement(d.err, d.nodes)
        ELSE try_new(d.nodes, temp_delta, input, output, "observe_flux", drives_output,
                     drives_output, ~drives_output, id)

heat_flux(N, input, output, flux, id) ==
    try_new(N, flux, input, output, "constant_flux", FALSE, TRUE, TRUE, id)

RESISTOR == "resistor"

CONDUCTOR == "conductor"

CONVECTION_INTERFACE == "convection_interface"

TEMPERATURE_DELTA == "temperature_delta"

HEAT_FLUX == "heat_flux"

VOLTAGE_SOURCE == "voltage_source"

CURRENT_SOURCE == "current_source"

\* the element types of the dc_circuit registry
Registry == {RESISTOR, VOLTAGE_SOURCE, CURRENT_SOURCE}

Construct(kind, N, input, output, value, id) ==
    CASE kind = RESISTOR       -> resistor(N, input, output, value, id)
      [] kind = VOLTAGE_SOURCE -> voltage_source(N, input, output, value, id)
      [] kind = CURRENT_SOURCE -> current_source(N, input, output, value, id)
      [] kind = CONDUCTOR      -> conductor(N, input, output, value, id)
      [] kind = CONVECTION_INTERFACE -> convection_interface(N, input, output, value, id)
      [] kind = TEMPERATURE_DELTA -> temperature_delta(N, input, output, value, id)
      [] kind = HEAT_FLUX      -> heat_flux(N, input, output, value, id)

(***************************************************************************)
(* NodalAnalysisStudy: the Configure and Build phases                      *)
(***************************************************************************)
MaxNodes == 2

MaxElems == 2

\* solve() calls explored per study
MaxSolves == 2

SolveLimit == 1000

SolveMargin == <<1, 10000>>

\* the last call made on the study, its arguments and its outcome
OpOf(name, args, status) ==
    [name |-> name, args |-> args, status |-> status, potentials |-> <<>>, fluxes |-> <<>>]

OpDone(name, status) == OpOf(name, <<>>, status)

Running == op.status = "running"

\* add_nodes(n): n fresh nodes are pushed
push_nodes(n) ==
    /\ phase = "Configure"
    /\ nodes' = nodes \o [k \in 1..n |-> NewNode]
    /\ op' = OpDone("add_nodes", "Ok")
    /\ UNCHANGED <<nr, mnr, phase, elements, solves, grounded, scenario, dropped, ffi, cli>>

\* add_nodes(n) on a study that stays within MaxNodes nodes
add_nodes(n) == Len(nodes) + n <= MaxNodes /\ push_nodes(n)

\* mutant: the node is locked at the potential it has
ground_node_LockOnly(node) ==
    /\ phase = "Configure"
    /\ node \in 1..Len(nodes)
    /\ nodes' = [nodes EXCEPT ![node].is_locked = TRUE]
    /\ op' = OpDone("ground_node", "Ok")
    /\ grounded' = grounded \cup {node}
    /\ UNCHANGED <<nr, mnr, phase, elements, solves, scenario, dropped, ffi, cli>>

\* ground_node(node), node an index of the node vector
ground_node(node) ==
    /\ phase = "Configure"
    /\ node \in 1..Len(nodes)
    /\ nodes' = [nodes EXCEPT ![node].potential = VZero(Len(@)),
                              ![node].is_locked = TRUE]
    /\ op' = OpDone("ground_node", "Ok")
    /\ grounded' = grounded \cup {node}
    /\ UNCHANGED <<nr, mnr, phase, elements, solves, scenario, dropped, ffi, cli>>

\* mutant: the Build study starts from an empty node vector
configure_Fresh ==
    /\ phase = "Configure"
    /\ phase' = "Build"
    /\ nodes' = <<>>
    /\ grounded' = {}
    /\ op' = OpDone("configure", "Ok")
    /\ UNCHANGED <<nr, mnr, elements, solves, scenario, dropped, ffi, cli>>

\* configure(): the Build study takes over the nodes and elements
configure ==
    /\ phase = "Configure"
    /\ phase' = "Build"
    /\ op' = OpDone("configure", "Ok")
    /\ UNCHANGED <<nr, mnr, nodes, elements, solves, grounded, scenario, dropped, ffi, cli>>

\* mutant: a bad node index is reported as an unknown element type
AddElementErrors_OneError(kind, input, output) ==
    IF input \in 1..Len(nodes) /\ output \in 1..Len(nodes) /\ kind \in Registry
    THEN {} ELSE {"ModelTypeNotFound"}

\* the checks in front of the constructor: the node indices, then the type name
\* looked up in the registry ("" when they pass); when both fail either error
\* may be the one reported
AddElementErrors(kind, input, output) ==
    (IF input \in 1..Len(nodes) /\ output \in 1..Len(nodes) THEN {} ELSE {"NodeDoesNotExist"})
    \cup (IF kind \in Registry THEN {} ELSE {"ModelTypeNotFound"})

\* NodalAnalysisStudy::add_element with a constructor and existing nodes
AddElementOk(kind, input, output, value) ==
    LET r == Construct(kind, nodes, input, output, value, Len(elements) + 1)
    IN  IF r.ok
        THEN /\ nodes' = r.nodes
             /\ elements' = Append(elements, r.elem)
             /\ op' = OpOf("add_element", <<kind, input, output>>, "Ok")
        ELSE /\ nodes' = r.nodes
             /\ elements' = elements
             /\ op' = OpOf("add_element", <<kind, input, output>>, r.err)

add_element(kind, input, output, value) ==
    /\ phase = "Build"
    /\ ~Running
    /\ Len(elements) < MaxElems
    /\ IF AddElementErrors(kind, input, output) # {}
       THEN /\ \E e \in AddElementErrors(kind, input, output) :
                  op' = OpOf("add_element", <<kind, input, output>>, e)
            /\ UNCHANGED <<nodes, elements>>
       ELSE AddElementOk(kind, input, output, value)
    /\ UNCHANGED <<nr, mnr, phase, solves, grounded, scenario, dropped, ffi, cli>>

\* rows of the first node's potential (0 stands for "no first node")
num_components(N) == IF N = <<>> THEN 0 ELSE Len(N[1].potential)

\* the unknowns of generate_system: every component of every unlocked node
Independents(N) ==
    { <<i, j>> \in (1..Len(N)) \X (1..num_components(N)) : ~N[i].is_locked }

\* the residual closures in the order generate_system pushes them
RECURSIVE Dependents(_, _)
Dependents(N, i) ==
    IF i > Len(N) THEN <<>>
    ELSE (IF N[i].is_locked THEN <<>>
          ELSE [j \in 1..Len(N[i].potential) |-> [kind |-> "node", i |-> i, j |-> j]])
         \o Dependents(N, i + 1)

\* mutant: the system of a study without nodes is handed to the Newton driver
solve_begin_NoCheck ==
    /\ phase = "Build"
    /\ ~Running
    /\ solves < MaxSolves
    /\ op' = OpDone("solve", "running")
    /\ \E order \in Orders(Independents(nodes)) :
          mnr' = MNRStart(Dependents(nodes, 1),
                          [k \in Independents(nodes) |-> nodes[k[1]].potential[k[2]]],
                          SolveMargin, SolveLimit, order)
    /\ solves' = solves + 1
    /\ UNCHANGED <<nr, phase, nodes, elements, grounded, scenario, dropped, ffi, cli>>

\* solve(), up to the call of the Newton driver
solve_begin ==
    /\ phase = "Build"
    /\ ~Running
    /\ solves < MaxSolves
    /\ IF nodes = <<>>
       THEN /\ op' = OpDone("solve", "NoNodesInSystem")
            /\ mnr' = mnr
       ELSE /\ op' = OpDone("solve", "running")
            /\ \E order \in Orders(Independents(nodes)) :
                  mnr' = MNRStart(Dependents(nodes, 1),
                                  [k \in Independents(nodes) |-> nodes[k[1]].potential[k[2]]],
                                  SolveMargin, SolveLimit, order)
    /\ solves' = solves + 1
    /\ UNCHANGED <<nr, phase, nodes, elements, grounded, scenario, dropped, ffi, cli>>

\* elem.get_flux()? for every element of the study, in order: [ok, err, vals, nodes]
RECURSIVE FluxAll(_, _, _, _)
FluxAll(e, N, els, acc) ==
    IF e > Len(els) THEN [ok |-> TRUE, err |-> "", vals |-> acc, nodes |-> N]
    ELSE LET r == get_flux(e, N, els, {})
         IN  IF ~r.ok THEN [ok |-> FALSE, err |-> r.err, vals |-> acc, nodes |-> r.nodes]
             ELSE FluxAll(e + 1, r.nodes, els, Append(acc, r.val))

\* solve(), from the return of the Newton driver
solve_finish ==
    /\ Running
    /\ mnr.pc = "done"
    /\ IF mnr.result # "Ok"
       THEN /\ op' = OpDone("solve", mnr.result)
            /\ nodes' = nodes
       ELSE LET r == FluxAll(1, SetPotentials(mnr.guess, nodes), elements, <<>>)
            IN  /\ nodes' = r.nodes
                /\ op' = IF r.ok
                         THEN [name |-> "solve", args |-> <<>>, status |-> "Ok",
                               potentials |-> [k \in 1..Len(nodes) |-> r.nodes[k].potential],
                               fluxes |-> r.vals]
                         ELSE OpDone("solve", r.err)
    /\ UNCHANGED <<nr, mnr, phase, elements, solves, grounded, scenario, dropped, ffi, cli>>

Resistances == { <<Q(1, 100)>> }

Voltages == { <<Q(3, 1)>> }

Currents == { <<Q(2, 1)>>, <<Q(20001, 200)>> }

Values(kind) ==
    CASE kind = RESISTOR       -> Resistances
      [] kind = VOLTAGE_SOURCE -> Voltages
      [] kind = CURRENT_SOURCE -> Currents
      [] OTHER                 -> { <<One>> }

Kinds == Registry \cup {"inductor"}

InitStudy ==
    /\ nr = NRIdle
    /\ mnr = MNRIdle
    /\ phase = "Configure"
    /\ nodes = <<>>
    /\ elements = <<>>
    /\ op = OpDone("none", "none")
    /\ solves = 0
    /\ grounded = {}
    /\ scenario = "none"
    /\ Elsewhere

NextStudy ==
    \/ \E n \in 1..MaxNodes : add_nodes(n)
    \/ \E i \in 1..MaxNodes : ground_node(i)
    \/ configure
    \/ \E kind \in Kinds, i \in 1..(MaxNodes + 1), o \in 1..(MaxNodes + 1) :
          \E v \in Values(kind) : add_element(kind, i, o, v)
    \/ solve_begin
    \/ multivariate_newton_raphson
    \/ solve_finish

SpecStudy == InitStudy /\ [][NextStudy]_vars

(***************************************************************************)
(* End-to-end scenarios: a study built and solved by a fixed sequence of   *)
(* calls (node indices from 1)                                             *)
(***************************************************************************)
Call(name, args) == [name |-> name, args |-> args]

\* architecture_test: the divider
Divider ==
    << Call("add_nodes", <<4>>), Call("ground_node", <<1>>), Call("configure", <<>>),
       Call("add_element", <<VOLTAGE_SOURCE, 1, 2, <<Q(3, 1)>>>>),
       Call("add_element", <<RESISTOR, 2, 3, <<Q(2, 1)>>>>),
       Call("add_element", <<RESISTOR, 3, 4, <<One>>>>),
       Call("add_element", <<RESISTOR, 4, 1, <<One>>>>),
       Call("solve", <<>>) >>

\* a current source feeding a resistor, and a node nothing is connected to
CurrentSource ==
    << Call("add_nodes", <<3>>), Call("ground_node", <<1>>), Call("configure", <<>>),
       Call("add_element", <<CURRENT_SOURCE, 1, 2, <<Q(2, 1)>>>>),
       Call("add_element", <<RESISTOR, 2, 1, <<Q(5, 1)>>>>),
       Call("solve", <<>>) >>

\* the heat conductor chain
HeatChain ==
    << Call("add_nodes", <<3>>), Call("ground_node", <<3>>), Call("configure", <<>>),
       Call("add_element", <<TEMPERATURE_DELTA, 1, 2, <<Q(100, 1)>>>>),
       Call("add_element", <<CONDUCTOR, 2, 3, <<Q(2, 1)>>>>),
       Call("solve", <<>>) >>

\* a heated wall: a heat flux into a conductor of length 2 and conductivity 1,
\* cooled through a convection interface
Wall ==
    << Call("add_nodes", <<3>>), Call("ground_node", <<3>>), Call("configure", <<>>),
       Call("add_element", <<HEAT_FLUX, 3, 1, <<Q(6, 1)>>>>),
       Call("add_element", <<CONDUCTOR, 1, 2, <<Q(2, 1), One>>>>),
       Call("add_element", <<CONVECTION_INTERFACE, 2, 3, <<Q(3, 1)>>>>),
       Call("solve", <<>>) >>

Scenarios == {"divider", "current_source", "heat_chain", "wall"}

Script ==
    CASE scenario = "divider"        -> Divider
      [] scenario = "current_source" -> CurrentSource
      [] scenario = "heat_chain"     -> HeatChain
      [] scenario = "wall"           -> Wall
      [] OTHER                       -> <<>>

\* the calls of the script made so far
Made ==
    (IF nodes = <<>> THEN 0 ELSE 1) + Cardinality(grounded)
    + (IF phase = "Build" THEN 1 ELSE 0) + Len(elements) + solves

\* the next call of the script
Step ==
    IF ~Running /\ Made < Len(Script) THEN Script[Made + 1] ELSE Call("end", <<>>)

\* NodalAnalysisStudy::add_element, called with a constructor on existing nodes
add_element_with(constructor, input, output, value) ==
    /\ phase = "Build"
    /\ ~Running
    /\ input \in 1..Len(nodes) /\ output \in 1..Len(nodes)
    /\ AddElementOk(constructor, input, output, value)
    /\ UNCHANGED <<nr, mnr, phase, solves, grounded, scenario, dropped, ffi, cli>>

ScenarioAddNodes == Step.name = "add_nodes" /\ push_nodes(Step.args[1])

ScenarioGround == Step.name = "ground_node" /\ ground_node(Step.args[1])

ScenarioConfigure == Step.name = "configure" /\ configure

ScenarioAddElement ==
    /\ Step.name = "add_element"
    /\ add_element_with(Step.args[1], Step.args[2], Step.args[3], Step.args[4])

ScenarioSolve == Step.name = "solve" /\ solve_begin

InitScenario ==
    /\ nr = NRIdle
    /\ mnr = MNRIdle
    /\ phase = "Configure"
    /\ nodes = <<>>
    /\ elements = <<>>
    /\ op = OpDone("none", "none")
    /\ solves = 0
    /\ grounded = {}
    /\ scenario \in Scenarios
    /\ Elsewhere

NextScenario ==
    \/ ScenarioAddNodes
    \/ ScenarioGround
    \/ ScenarioConfigure
    \/ ScenarioAddElement
    \/ ScenarioSolve
    \/ multivariate_newton_raphson
    \/ solve_finish

SpecScenario == InitScenario /\ [][NextScenario]_vars

(***************************************************************************)
(* Nodes and elements outside a study, as the tests and the doc examples   *)
(* use them: the caller owns each node (Rc) and hands Weak references to   *)
(* the constructors and to is_locked, lock_node, get_node_potential and    *)
(* set_node_potential.  dropped holds the nodes whose Rc the caller has    *)
(* dropped: elements hold Weak references only, so the node is freed.      *)
(***************************************************************************)
\* the memory of a node after its Rc was dropped
Freed == [potential |-> <<>>, inputs |-> <<>>, outputs |-> <<>>, is_locked |-> FALSE]

WeakFrame == UNCHANGED <<nr, mnr, phase, solves, grounded, scenario, ffi, cli>>

\* GenericNode::new()
node_new ==
    /\ Len(nodes) < MaxNodes
    /\ nodes' = Append(nodes, NewNode)
    /\ op' = OpOf("new", <<Len(nodes) + 1>>, "Ok")
    /\ UNCHANGED <<elements, dropped>>
    /\ WeakFrame

\* the caller drops its Rc of node k
drop_node(k) ==
    /\ k \in 1..Len(nodes)
    /\ k \notin dropped
    /\ nodes' = [nodes EXCEPT ![k] = Freed]
    /\ dropped' = dropped \cup {k}
    /\ op' = OpOf("drop", <<k>>, "Ok")
    /\ UNCHANGED elements
    /\ WeakFrame

\* a constructor called on two Weak references
construct(kind, input, output, value) ==
    /\ Len(elements) < MaxElems
    /\ input \in 1..Len(nodes) /\ output \in 1..Len(nodes)
    /\ AddElementOk(kind, input, output, value)
    /\ UNCHANGED dropped
    /\ WeakFrame

\* the potentials explored: two sources that drive each other's node raise
\* the potentials with every get_flux
MaxPotential == 10

Explored ==
    \A k \in 1..Len(nodes) : \A c \in 1..Len(nodes[k].potential) :
        XLe(XAbs(nodes[k].potential[c]), Q(MaxPotential, 1))

\* GenericElement::get_flux of element e, held by the caller
element_get_flux(e) ==
    /\ e \in 1..Len(elements)
    /\ Explored
    /\ LET r == get_flux(e, nodes, elements, {})
       IN  /\ nodes' = r.nodes
           /\ op' = [OpOf("get_flux", <<e>>, IF r.ok THEN "Ok" ELSE r.err)
                        EXCEPT !.fluxes = IF r.ok THEN <<r.val>> ELSE <<>>]
    /\ UNCHANGED <<elements, dropped>>
    /\ WeakFrame

\* a call on the Weak reference of node k: DroppedNodeError unless it upgrades
OnNode(name, k, N, ret) ==
    /\ k \in 1..Len(nodes)
    /\ IF k \in dropped
       THEN /\ op' = OpOf(name, <<k>>, "DroppedNodeError")
            /\ nodes' = nodes
       ELSE /\ op' = [OpOf(name, <<k>>, "Ok") EXCEPT !.potentials = ret]
            /\ nodes' = N
    /\ UNCHANGED <<elements, dropped>>
    /\ WeakFrame

is_locked(k) == OnNode("is_locked", k, nodes, <<nodes[k].is_locked>>)

lock_node(k) == OnNode("lock_node", k, [nodes EXCEPT ![k].is_locked = TRUE], <<>>)

get_node_potential(k) == OnNode("get_node_potential", k, nodes, <<nodes[k].potential>>)

set_node_potential(k, potential) ==
    OnNode("set_node_potential", k, [nodes EXCEPT ![k].potential = potential], <<>>)

InitWeak == nr = NRIdle /\ mnr = MNRIdle /\ StudyIdle

NextWeak ==
    \/ node_new
    \/ \E k \in 1..MaxNodes : drop_node(k)
    \/ \E kind \in Registry, i \in 1..MaxNodes, o \in 1..MaxNodes :
          \E v \in Values(kind) : construct(kind, i, o, v)
    \/ \E e \in 1..MaxElems : element_get_flux(e)
    \/ \E k \in 1..MaxNodes : is_locked(k)
    \/ \E k \in 1..MaxNodes : lock_node(k)
    \/ \E k \in 1..MaxNodes : get_node_potential(k)
    \/ \E k \in 1..MaxNodes, v \in Voltages : set_node_potential(k, v)

SpecWeak == InitWeak /\ [][NextWeak]_vars

(***************************************************************************)
(* The C interfaces of gmatlib (src/gmatlib/src/ffi.rs) and of nexsys      *)
(* (src/nexsys/src/ffi.rs), called by a foreign caller.  ffi.heap holds    *)
(* the live Box<Matrix> allocations, ffi.owned the matrix handles the      *)
(* caller was given and has not freed, ffi.maps the live declared maps.    *)
(* The outcome of the wrapped operation (a return, an Err, a panic) is an  *)
(* input of each call; ffi.ub records a Box::from_raw of memory that is no *)
(* longer allocated, after which nothing is modelled.                      *)
(***************************************************************************)
\* allocations made per run
MaxHandles == 3

\* the exported functions whose body runs inside catch_unwind
Catching ==
    {"new_double_matrix", "new_double_identity_matrix", "inplace_row_swap",
     "inplace_row_scale", "inplace_scale", "inplace_row_add", "inplace_scaled_row_add",
     "multiply_matrix", "augment_with", "subset", "trace", "transpose",
     "try_inplace_invert", "index_mut_double_matrix", "index_double_matrix",
     "clone_double_matrix", "free_double_matrix",
     "add_declared_variable", "basic_solve", "solve_with_preprocessors"}

CallOf(fn, ptrs, outcome, ret) ==
    [fn |-> fn, ptrs |-> ptrs, outcome |-> outcome, ret |-> ret,
     unwound |-> outcome = "panic" /\ fn \notin Catching]

FfiFrame == UNCHANGED <<nr, mnr, phase, nodes, elements, op, solves, grounded, scenario,
                        dropped, cli>>

\* the return of a function of gmatlib: the boxes made by Box::from_raw(ptrs)
\* that were not passed to mem::forget are dropped (freed), and Box::into_raw
\* hands a new allocation to the caller (fresh)
Extern(fn, ptrs, outcome, ret, freed, fresh) ==
    LET made == IF fresh THEN {ffi.next} ELSE {}
    IN  /\ ~ffi.ub
        /\ \A k \in 1..Len(ptrs) : ptrs[k] \in ffi.owned
        /\ fresh => ffi.next <= MaxHandles
        /\ ffi' = [ffi EXCEPT !.next = @ + Cardinality(made),
                              !.heap = (@ \ freed) \cup made,
                              !.owned = @ \cup made,
                              !.call = CallOf(fn, ptrs, outcome, ret),
                              !.ub = \/ \E k \in 1..Len(ptrs) : ptrs[k] \notin ffi.heap
                                     \/ Len(ptrs) = 2 /\ ptrs[1] = ptrs[2] /\ freed # {}]
        /\ FfiFrame

\* new_double_matrix and new_double_identity_matrix
Construction(fn, outcome) ==
    /\ outcome \in {"ok", "panic"}
    /\ Extern(fn, <<>>, outcome, IF outcome = "ok" THEN "ptr" ELSE "null", {}, outcome = "ok")

\* inplace_row_swap, inplace_row_scale, inplace_scale, inplace_row_add,
\* inplace_scaled_row_add and index_mut_double_matrix: the box of ptr is
\* forgotten after the operation returned
InPlace(fn, ptr, outcome) ==
    /\ outcome \in {"ok", "panic"}
    /\ Extern(fn, <<ptr>>, outcome, IF outcome = "ok" THEN "1" ELSE "0",
              IF outcome = "ok" THEN {} ELSE {ptr}, FALSE)

\* multiply_matrix and augment_with: on Err the closure returns before
\* mem::forget(a) and mem::forget(b)
Product(fn, ptr_a, ptr_b, outcome) ==
    /\ outcome \in {"ok", "err", "panic"}
    /\ Extern(fn, <<ptr_a, ptr_b>>, outcome, IF outcome = "ok" THEN "ptr" ELSE "null",
              IF outcome = "ok" THEN {} ELSE {ptr_a, ptr_b}, outcome = "ok")

\* subset, transpose and clone_double_matrix: a new matrix made from the one
\* of ptr
Derived(fn, ptr, outcome) ==
    /\ outcome \in {"ok", "panic"}
    /\ Extern(fn, <<ptr>>, outcome, IF outcome = "ok" THEN "ptr" ELSE "null",
              IF outcome = "ok" THEN {} ELSE {ptr}, outcome = "ok")

trace(ptr, outcome) ==
    /\ outcome \in {"ok", "err", "panic"}
    /\ Extern("trace", <<ptr>>, outcome,
              CASE outcome = "ok" -> "value" [] outcome = "err" -> "NaN" [] OTHER -> "MIN",
              IF outcome = "panic" THEN {ptr} ELSE {}, FALSE)

index_double_matrix(ptr, outcome) ==
    /\ outcome \in {"ok", "panic"}
    /\ Extern("index_double_matrix", <<ptr>>, outcome,
              IF outcome = "ok" THEN "value" ELSE "MIN",
              IF outcome = "ok" THEN {} ELSE {ptr}, FALSE)

InversionOutcomes ==
    {"ok", "DeterminantWasZero", "SingularValueWasZero", "ZeroDuringInversion", "other", "panic"}

\* mutant: a panic is reported with the status of a success
try_inplace_invert_PanicIsMax(ptr, outcome) ==
    /\ outcome \in InversionOutcomes
    /\ Extern("try_inplace_invert", <<ptr>>, outcome,
              CASE outcome = "ok" -> "MAX"
                [] outcome = "DeterminantWasZero" -> "0"
                [] outcome = "SingularValueWasZero" -> "1"
                [] outcome = "ZeroDuringInversion" -> "2"
                [] outcome = "other" -> "3"
                [] OTHER -> "MAX",
              IF outcome = "panic" THEN {ptr} ELSE {}, FALSE)

\* MAX stands for c_uint::MAX; res.unwrap_or(0) is the status of a panic
try_inplace_invert(ptr, outcome) ==
    /\ outcome \in InversionOutcomes
    /\ Extern("try_inplace_invert", <<ptr>>, outcome,
              CASE outcome = "ok" -> "MAX"
                [] outcome = "DeterminantWasZero" -> "0"
                [] outcome = "SingularValueWasZero" -> "1"
                [] outcome = "ZeroDuringInversion" -> "2"
                [] outcome = "other" -> "3"
                [] OTHER -> "0",
              IF outcome = "panic" THEN {ptr} ELSE {}, FALSE)

\* the caller gives the handle up; the box is dropped
free_double_matrix(ptr) ==
    /\ ~ffi.ub
    /\ ptr \in ffi.owned
    /\ ffi' = [ffi EXCEPT !.heap = @ \ {ptr},
                          !.owned = @ \ {ptr},
                          !.call = CallOf("free_double_matrix", <<ptr>>, "ok", "void"),
                          !.ub = ptr \notin ffi.heap]
    /\ FfiFrame

\* nexsys: Box::new(HashMap::new()) outside catch_unwind
new_declared_hash_map ==
    /\ ~ffi.ub
    /\ ffi.next <= MaxHandles
    /\ ffi' = [ffi EXCEPT !.next = @ + 1,
                          !.maps = @ \cup {ffi.next},
                          !.call = CallOf("new_declared_hash_map", <<>>, "ok", "ptr")]
    /\ FfiFrame

\* a function of nexsys that reads or writes the map behind declared in place
OnMap(fn, declared, outcome, ret) ==
    /\ ~ffi.ub
    /\ declared \in ffi.maps
    /\ ffi' = [ffi EXCEPT !.call = CallOf(fn, <<declared>>, outcome, ret)]
    /\ FfiFrame

add_declared_variable(declared, outcome) ==
    /\ outcome \in {"ok", "panic"}
    /\ OnMap("add_declared_variable", declared, outcome, IF outcome = "ok" THEN "1" ELSE "0")

basic_solve(declared, outcome) ==
    /\ outcome \in {"ok", "err", "panic"}
    /\ OnMap("basic_solve", declared, outcome, IF outcome = "ok" THEN "ptr" ELSE "null")

solve_with_preprocessors(outcome) ==
    /\ outcome \in {"ok", "err", "panic"}
    /\ ~ffi.ub
    /\ ffi' = [ffi EXCEPT !.call = CallOf("solve_with_preprocessors", <<>>, outcome,
                                          IF outcome = "ok" THEN "ptr" ELSE "null")]
    /\ FfiFrame

free_declared_hash_map(declared) ==
    /\ ~ffi.ub
    /\ declared \in ffi.maps
    /\ ffi' = [ffi EXCEPT !.maps = @ \ {declared},
                          !.call = CallOf("free_declared_hash_map", <<declared>>, "ok", "void")]
    /\ FfiFrame

Handles == 1..MaxHandles

InitFfi == nr = NRIdle /\ mnr = MNRIdle /\ StudyIdle

NextFfi ==
    \/ \E fn \in {"new_double_matrix", "new_double_identity_matrix"} :
          \E o \in {"ok", "panic"} : Construction(fn, o)
    \/ \E fn \in {"inplace_row_swap", "inplace_row_scale", "inplace_scale", "inplace_row_add",
                   "inplace_scaled_row_add", "index_mut_double_matrix"} :
          \E p \in Handles, o \in {"ok", "panic"} : InPlace(fn, p, o)
    \/ \E fn \in {"multiply_matrix", "augment_with"} :
          \E a \in Handles, b \in Handles, o \in {"ok", "err", "panic"} : Product(fn, a, b, o)
    \/ \E fn \in {"subset", "transpose", "clone_double_matrix"} :
          \E p \in Handles, o \in {"ok", "panic"} : Derived(fn, p, o)
    \/ \E p \in Handles, o \in {"ok", "err", "panic"} : trace(p, o)
    \/ \E p \in Handles, o \in InversionOutcomes : try_inplace_invert(p, o)
    \/ \E p \in Handles, o \in {"ok", "panic"} : index_double_matrix(p, o)
    \/ \E p \in Handles : free_double_matrix(p)
    \/ new_declared_hash_map
    \/ \E d \in Handles, o \in {"ok", "panic"} : add_declared_variable(d, o)
    \/ \E d \in Handles, o \in {"ok", "err", "panic"} : basic_solve(d, o)
    \/ \E o \in {"ok", "err", "panic"} : solve_with_preprocessors(o)
    \/ \E d \in Handles : free_declared_hash_map(d)

SpecFfi == InitFfi /\ [][NextFfi]_vars

(***************************************************************************)
(* The command line tool (src/neapolitan/src/main.rs).  cli.args is the    *)
(* argument vector (args[0] of the program is cli.args[1]), cli.i the loop *)
(* index of main, cli.passed the stages that succeeded, cli.exit the exit  *)
(* code of the process: 0 or 1 from process::exit, 101 from a panic of the *)
(* main thread.  Whether the model parses, solves, serializes and can be   *)
(* written is an input of the step.                                        *)
(***************************************************************************)
\* arguments after the program name
MaxArgs == 3

Tokens ==
    {"model.json", "missing.json", "-p", "--precision", "-i", "--iterations",
     "0.001", "50", "abc"}

\* the files read_to_string finds
Files == {"model.json"}

\* str::parse::<f64> and str::parse::<usize> on the tokens
ParsesF64(token) == token \in {"0.001", "50"}

ParsesUsize(token) == token \in {"50"}

Argvs == { <<"neapolitan">> \o a : a \in UNION { [1..n -> Tokens] : n \in 0..MaxArgs } }

Stages == {"read", "flags", "model", "solve", "serialize", "write"}

CliFrame == UNCHANGED <<nr, mnr, phase, nodes, elements, op, solves, grounded, scenario,
                        dropped, ffi>>

\* process::exit(code), or the exit of a process whose main thread panicked
Exit(code) == cli' = [cli EXCEPT !.pc = "exited", !.exit = code]

Pass(stage, pc) == cli' = [cli EXCEPT !.pc = pc, !.passed = @ \cup {stage}]

\* lines 13-22: read_to_string(&args[1])
main_read ==
    /\ cli.pc = "read"
    /\ IF Len(cli.args) < 2 THEN Exit("101")
       ELSE IF cli.args[2] \in Files
       THEN cli' = [cli EXCEPT !.pc = "flags", !.i = 1, !.passed = @ \cup {"read"}]
       ELSE Exit("1")
    /\ CliFrame

\* lines 25-72: one turn of the loop over the arguments
main_flag ==
    /\ cli.pc = "flags"
    /\ cli.i < Len(cli.args)
    /\ LET arg == cli.args[cli.i + 1]
       IN  IF arg \in {"--precision", "-p"}
           THEN IF cli.i + 2 > Len(cli.args) THEN Exit("101")
                ELSE IF ParsesF64(cli.args[cli.i + 2])
                THEN cli' = [cli EXCEPT !.precision = cli.args[cli.i + 2], !.i = @ + 2]
                ELSE Exit("1")
           ELSE IF arg \in {"--iterations", "-i"}
           THEN IF cli.i + 2 > Len(cli.args) THEN Exit("101")
                ELSE IF ParsesUsize(cli.args[cli.i + 2])
                THEN cli' = [cli EXCEPT !.iteration_limit = cli.args[cli.i + 2], !.i = @ + 2]
                ELSE Exit("1")
           ELSE cli' = [cli EXCEPT !.i = @ + 1]
    /\ CliFrame

\* lines 74-83: from_str(&model_json), reached when the loop has ended
main_from_str(ok) ==
    /\ cli.pc = "flags"
    /\ cli.i >= Len(cli.args)
    /\ IF ok THEN cli' = [cli EXCEPT !.pc = "solve", !.passed = @ \cup {"flags", "model"}]
       ELSE cli' = [cli EXCEPT !.pc = "exited", !.exit = "1", !.passed = @ \cup {"flags"}]
    /\ CliFrame

\* lines 85-95: run_study
main_run_study(ok) ==
    /\ cli.pc = "solve"
    /\ IF ok THEN Pass("solve", "serialize") ELSE Exit("1")
    /\ CliFrame

\* lines 97-106: to_string_pretty(&solution)
main_to_string_pretty(ok) ==
    /\ cli.pc = "serialize"
    /\ IF ok THEN Pass("serialize", "write") ELSE Exit("1")
    /\ CliFrame

\* lines 108-117: write(solution_file, solution_json)
main_write(ok) ==
    /\ cli.pc = "write"
    /\ IF ok
       THEN cli' = [cli EXCEPT !.pc = "exited", !.exit = "0", !.written = TRUE,
                               !.passed = @ \cup {"write"}]
       ELSE Exit("1")
    /\ CliFrame

InitCli ==
    /\ nr = NRIdle
    /\ mnr = MNRIdle
    /\ phase = "Configure"
    /\ nodes = <<>>
    /\ elements = <<>>
    /\ op = OpDone("none", "none")
    /\ solves = 0
    /\ grounded = {}
    /\ scenario = "none"
    /\ dropped = {}
    /\ ffi = FfiIdle
    /\ \E a \in Argvs : cli = [CliIdle EXCEPT !.pc = "read", !.args = a]

NextCli ==
    \/ main_read
    \/ main_flag
    \/ \E ok \in BOOLEAN : main_from_str(ok)
    \/ \E ok \in BOOLEAN : main_run_study(ok)
    \/ \E ok \in BOOLEAN : main_to_string_pretty(ok)
    \/ \E ok \in BOOLEAN : main_write(ok)

SpecCli == InitCli /\ [][NextCli]_vars

(***************************************************************************)
(* The loop that builds the jacobian (newton.rs, lines 141-156) with       *)
(* rounded arithmetic.  The solver model above computes with exact         *)
(* rationals, for which (x + h) - h is x; an f64 rounds each of the two    *)
(* operations.  Here a float is <<m, e>>, the value m * 2^e with           *)
(* 2^(Precision-1) <= |m| < 2^Precision (<<0, 0>> is zero), and a sum is   *)
(* rounded to the nearest float, ties to even, as IEEE 754 does with 53    *)
(* bits.  The closures are not evaluated: none fails, and none writes the  *)
(* guess.                                                                  *)
(***************************************************************************)
\* bits of the significand
Precision == 15

RECURSIVE Pow2(_)
Pow2(k) == IF k = 0 THEN 1 ELSE 2 * Pow2(k - 1)

\* the number of bits of n > 0
RECURSIVE BitLen(_)
BitLen(n) == IF n = 0 THEN 0 ELSE 1 + BitLen(n \div 2)

\* n * 2^e rounded to Precision bits, ties to even
Fl(n, e) ==
    IF n = 0 THEN <<0, 0>>
    ELSE LET k == BitLen(IAbs(n)) - Precision
         IN  IF k <= 0 THEN <<n * Pow2(-k), e + k>>
             ELSE LET q    == IAbs(n) \div Pow2(k)
                      r    == IAbs(n) % Pow2(k)
                      half == Pow2(k - 1)
                      up   == r > half \/ (r = half /\ q % 2 = 1)
                      q1   == IF up THEN q + 1 ELSE q
                  IN  IF q1 = Pow2(Precision)
                      THEN <<ISgn(n) * Pow2(Precision - 1), e + k + 1>>
                      ELSE <<ISgn(n) * q1, e + k>>

\* a + b and a - b of two floats
FlAdd(a, b) ==
    IF a[1] = 0 THEN b
    ELSE IF b[1] = 0 THEN a
    ELSE LET e == IF a[2] < b[2] THEN a[2] ELSE b[2]
         IN  Fl(a[1] * Pow2(a[2] - e) + b[1] * Pow2(b[2] - e), e)

FlSub(a, b) == FlAdd(a, <<-b[1], b[2]>>)

\* const _DX_: f64 = 0.001, the float nearest to 1/1000
Fl_DX_ == Fl((Pow2(30) + 500) \div 1000, -30)

\* the guesses explored: 1, 2, 3, 7, 8, 0.5, 2.5 and 6.5
Floats == {Fl(1, 0), Fl(2, 0), Fl(3, 0), Fl(7, 0), Fl(8, 0), Fl(1, -1), Fl(5, -1), Fl(13, -1)}

\* the call frame at line 141 of an iteration on the guess g
JacobianStart(g, order) ==
    [MNRIdle EXCEPT !.pc = "perturb", !.guess = g, !.vars = order, !.j = 1, !.iters = 1,
                    !.guess0 = g, !.iterGuess = g]

RoundedFrame == UNCHANGED <<nr, phase, nodes, elements, op, solves, grounded, scenario,
                            dropped, ffi, cli>>

\* line 145: *v += _DX_
RoundedPerturb ==
    /\ mnr.pc = "perturb"
    /\ mnr' = [mnr EXCEPT !.pc = "column", !.guess[mnr.vars[mnr.j]] = FlAdd(@, Fl_DX_)]
    /\ RoundedFrame

\* lines 147-151: the closures are evaluated on the perturbed guess
RoundedColumn ==
    /\ mnr.pc = "column"
    /\ mnr' = [mnr EXCEPT !.pc = "restore"]
    /\ RoundedFrame

\* line 154: *v -= _DX_
RoundedRestore ==
    /\ mnr.pc = "restore"
    /\ mnr' = [mnr EXCEPT !.guess[mnr.vars[mnr.j]] = FlSub(@, Fl_DX_),
                          !.j = @ + 1,
                          !.pc = IF mnr.j = Len(mnr.vars) THEN "invert" ELSE "perturb"]
    /\ RoundedFrame

InitRounded ==
    /\ nr = NRIdle
    /\ \E g \in [{"x", "y"} -> Floats] : \E o \in Orders({"x", "y"}) :
          mnr = JacobianStart(g, o)
    /\ StudyIdle

NextRounded ==
    \/ RoundedPerturb
    \/ RoundedColumn
    \/ RoundedRestore

SpecRounded == InitRounded /\ [][NextRounded]_vars

(***************************************************************************)
(* Properties of the solvers (checked under SpecNewton)                    *)
(***************************************************************************)
Positive(m) == XLt(Zero, m)

\* C1: newton_raphson and multivariate_newton_raphson reject margin <= 0 with
\* NegativeMargin and margin > 0 with limit = 0 with ReachedIterationLimit,
\* having evaluated no residual and with the guess as it was passed.
C1_RejectsMarginAndLimit ==
    /\ (nr.pc = "done" /\ XLe(nr.margin, Zero))
          => (nr.result = "NegativeMargin" /\ nr.evals = 0 /\ nr.guess = nr.guess0)
    /\ (nr.pc = "done" /\ Positive(nr.margin) /\ nr.limit0 = 0)
          => (nr.result = "ReachedIterationLimit" /\ nr.evals = 0 /\ nr.guess = nr.guess0)
    /\ (mnr.pc = "done" /\ XLe(mnr.margin, Zero))
          => (mnr.result = "NegativeMargin" /\ mnr.evals = 0 /\ mnr.guess = mnr.guess0)
    /\ (mnr.pc = "done" /\ Positive(mnr.margin) /\ mnr.limit0 = 0)
          => (mnr.result = "ReachedIterationLimit" /\ mnr.evals = 0
              /\ mnr.guess = mnr.guess0)
    /\ (XLe(nr.margin, Zero) \/ nr.limit0 = 0) => nr.pc \in {"idle", "call", "done"}
    /\ (XLe(mnr.margin, Zero) \/ mnr.limit0 = 0) => mnr.pc \in {"idle", "check", "done"}

\* a multivariate call with margin <= 0, two closures and a two-entry guess was rejected
C1_Witness ==
    /\ mnr.pc = "done"
    /\ mnr.result = "NegativeMargin"
    /\ Len(mnr.f) = 2
    /\ Cardinality(DOMAIN mnr.guess0) = 2
    /\ mnr.limit0 = 0

Mismatched == Cardinality(DOMAIN mnr.guess0) # Len(mnr.f)

\* C2: a call of multivariate_newton_raphson with margin > 0 and limit >= 1 whose
\* closure count differs from the size of the guess map evaluates no closure,
\* leaves the guess map unchanged and ends with ImproperlyConstrainedSystem.
C2_RejectsMismatchedSystem ==
    (mnr.pc # "idle" /\ Positive(mnr.margin) /\ mnr.limit0 >= 1 /\ Mismatched)
        => /\ mnr.evals = 0
           /\ mnr.guess = mnr.guess0
           /\ mnr.pc \in {"check", "done"}
           /\ mnr.pc = "done" => mnr.result = "ImproperlyConstrainedSystem"

\* one closure against a guess of two entries was rejected
C2_Witness ==
    /\ mnr.pc = "done"
    /\ mnr.result = "ImproperlyConstrainedSystem"
    /\ Len(mnr.f) = 1
    /\ Cardinality(DOMAIN mnr.guess0) = 2
    /\ mnr.limit0 >= 1

\* C3: a call with limit = L makes at most L iterations, each passing
\* limit - 1 on (so at most 2L resp. (n*n + 2n)L residual evaluations); when
\* L iterations have run without converging or failing the result is
\* ReachedIterationLimit.
C3_IterationBudget ==
    /\ nr.iters <= nr.limit0
    /\ nr.pc = "call" => nr.limit = nr.limit0 - nr.iters
    /\ nr.limit >= nr.limit0 - nr.iters
    /\ nr.evals <= 2 * nr.limit0
    /\ (nr.pc = "done" /\ Positive(nr.margin) /\ nr.iters = nr.limit0
        /\ nr.result \notin {"Ok", "ClosureError"})
          => nr.result = "ReachedIterationLimit"
    /\ mnr.iters <= mnr.limit0
    /\ mnr.pc = "check" => mnr.limit = mnr.limit0 - mnr.iters
    /\ mnr.pc \notin {"idle", "check", "done"} => mnr.limit = mnr.limit0 - mnr.iters + 1
    /\ mnr.limit >= mnr.limit0 - mnr.iters
    /\ mnr.evals <= (Len(mnr.f) * Len(mnr.f) + 2 * Len(mnr.f)) * mnr.limit0
    /\ (mnr.pc = "done" /\ Positive(mnr.margin) /\ ~Mismatched /\ mnr.iters = mnr.limit0
        /\ mnr.result \notin {"Ok", "ClosureError", "MatrixError", "MatrixInversionError"})
          => mnr.result = "ReachedIterationLimit"

\* three iterations of a two-variable system ran without converging
C3_Witness ==
    /\ mnr.pc = "done"
    /\ mnr.result = "ReachedIterationLimit"
    /\ mnr.iters = 3
    /\ Len(mnr.f) = 2

Tested == (mnr.pc = "done" /\ mnr.result = "Ok") \/ (mnr.pc = "check" /\ mnr.iters >= 1)

\* C4 as stated: the tested iterate is returned, without the step applied,
\* exactly when sum y_i^2 <= margin and sum delta_j^2 <= margin, and otherwise
\* the step is applied and the iteration goes on.
C4_ReturnsIffSumsWithinMargin ==
    Tested =>
        /\ mnr.deltas = MatVec(mnr.jacobian, mnr.y)
        /\ (mnr.pc = "done") <=>
               (XLe(SumSq(mnr.y), mnr.margin) /\ XLe(SumSq(mnr.deltas), mnr.margin))
        /\ mnr.pc = "done" => mnr.guess = mnr.iterGuess
        /\ mnr.pc = "check" => mnr.guess = ApplyStep(mnr.iterGuess, mnr.vars, mnr.deltas)

\* C4 amended: the change compared with margin is the square root of the sum
\* of the squared deltas, i.e. the iterate is returned exactly when
\* sum y_i^2 <= margin and sum delta_j^2 <= margin^2.
C4_ReturnsIffErrorAndNormWithinMargin ==
    Tested =>
        /\ mnr.deltas = MatVec(mnr.jacobian, mnr.y)
        /\ (mnr.pc = "done") <=>
               (XLe(SumSq(mnr.y), mnr.margin)
                /\ XLe(SumSq(mnr.deltas), XMul(mnr.margin, mnr.margin)))
        /\ mnr.pc = "done" => mnr.guess = mnr.iterGuess
        /\ mnr.pc = "check" => mnr.guess = ApplyStep(mnr.iterGuess, mnr.vars, mnr.deltas)

\* an iterate with sum y^2 <= margin and sum delta^2 <= margin was not returned
C4_Witness ==
    /\ mnr.pc = "check"
    /\ mnr.iters >= 1
    /\ XLe(SumSq(mnr.y), mnr.margin)
    /\ XLe(SumSq(mnr.deltas), mnr.margin)
    /\ mnr.guess # mnr.iterGuess

\* the Newton step newton_raphson computes at x
NRStepAt(f, x) ==
    LET y == Eval1(f, x).val
    IN  XDiv(y, YPrime(y, Eval1(f, XAdd(x, _DX_)).val))

\* C5: newton_raphson returns Ok(x) only for an x with |f(x)| <= margin and
\* |f(x) / ((f(x + h) - f(x)) / h)| <= margin.
C5_ReturnedRootWithinMargin ==
    (nr.pc = "done" /\ nr.result = "Ok")
        => /\ XLe(XAbs(Eval1(nr.f, nr.guess).val), nr.margin)
           /\ XLe(XAbs(NRStepAt(nr.f, nr.guess)), nr.margin)

\* the call of the documented example: f1 = x + y - 9, f2 = x - y - 4 from
\* (7, 2) with margin 1e-4
DocExample ==
    /\ mnr.f = << Lin(1, 1, -9), Lin(1, -1, -4) >>
    /\ mnr.guess0 = MapXY(Q(7, 1), Q(2, 1))
    /\ mnr.margin = Q(1, 10000)

Near(a, b, eps) == XLe(XAbs(XSub(a, b)), eps)

\* C13: the documented example, given a limit that allows the iteration that
\* steps and the one that tests the result (limit >= 2), returns Ok with
\* |x - 6.5| <= 1e-4 and |y - 2.5| <= 1e-4.
C13_DocExampleSolved ==
    (DocExample /\ mnr.limit0 >= 2 /\ mnr.pc = "done") =>
        /\ mnr.result = "Ok"
        /\ Near(mnr.guess["x"], Q(13, 2), Q(1, 10000))
        /\ Near(mnr.guess["y"], Q(5, 2), Q(1, 10000))

\* the documented example returned after a step that moved the guess
C13_Witness ==
    /\ DocExample
    /\ mnr.pc = "done"
    /\ mnr.result = "Ok"
    /\ mnr.iters = 2
    /\ mnr.guess # mnr.guess0

(***************************************************************************)
(* Properties of the study (checked under SpecStudy)                       *)
(***************************************************************************)
Solved == op.name = "solve" /\ op.status = "Ok"

\* the flux discrepancy of node k at the potentials the nodes hold
Discrepancy(k) == get_flux_discrepancy(k, nodes, elements, {k})

\* C6: after a successful solve with margin m, every component of the flux
\* discrepancy of every unlocked node, evaluated at the reported potentials,
\* is at most m in absolute value.
C6_UnlockedNodesBalanced ==
    Solved =>
        \A k \in 1..Len(nodes) :
            (~nodes[k].is_locked /\ Discrepancy(k).ok) =>
                \A c \in 1..Len(Discrepancy(k).val) :
                    XLe(XAbs(Discrepancy(k).val[c]), SolveMargin)

\* C7: a grounded node is locked with an all-zero potential, from ground_node
\* on and through every later add_element and solve, in the node and in the
\* potentials solve reports.
C7_GroundedStaysZero ==
    \A k \in grounded :
        /\ nodes[k].is_locked
        /\ nodes[k].potential = VZero(Len(nodes[k].potential))
        /\ Solved => op.potentials[k] = VZero(Len(nodes[k].potential))

\* a solve succeeded that moved a free node next to a grounded one
C7_Witness ==
    /\ Solved
    /\ elements # <<>>
    /\ \E k \in grounded : \E e \in 1..Len(elements) :
          {elements[e].input_node, elements[e].output_node} \in
              { {k, i} : i \in (1..Len(nodes)) \ grounded }
    /\ \E i \in 1..Len(nodes) :
          ~nodes[i].is_locked /\ nodes[i].potential \notin {<<One>>, <<Zero>>}

ConfigureOps == {"none", "add_nodes", "ground_node"}

BuildOps == {"configure", "add_element", "solve"}

\* C8: the study is a two-phase machine.  While it is in Configure only
\* add_nodes and ground_node have been called (no element, no solve); in Build
\* only add_element and solve are called; configure() carries the nodes and the
\* elements over unchanged; and no step of the Build phase leaves the phase or
\* changes the number of nodes.
C8_TwoPhases ==
    /\ [](phase = "Configure" =>
            op.name \in ConfigureOps /\ elements = <<>> /\ solves = 0 /\ mnr.pc = "idle")
    /\ [](phase = "Build" => op.name \in BuildOps)
    /\ [][/\ (phase = "Configure" /\ phase' = "Build") =>
                (nodes' = nodes /\ elements' = elements)
          /\ phase = "Build" => (phase' = "Build" /\ Len(nodes') = Len(nodes))
          /\ Len(nodes') # Len(nodes) => (phase = "Configure" /\ phase' = "Configure")
          /\ grounded' # grounded => (phase = "Configure" /\ phase' = "Configure")
          /\ (elements' # elements \/ solves' # solves) => phase = "Build"]_vars

\* a Build study that kept its two nodes through add_element and solve calls
C8_Witness ==
    /\ phase = "Build"
    /\ Len(nodes) = 2
    /\ grounded # {}
    /\ Len(elements) = 2
    /\ solves = 2
    /\ Solved

BadIndex == op.args[2] \notin 1..Len(nodes) \/ op.args[3] \notin 1..Len(nodes)

UnknownType == op.args[1] \notin Registry

C10_NoNodesNoDriver ==
    (phase = "Build" /\ nodes = <<>>) =>
        /\ mnr = MNRIdle
        /\ op.name = "solve" => op.status = "NoNodesInSystem"

\* solve was called on a Build study without nodes
C10_Witness ==
    /\ phase = "Build"
    /\ nodes = <<>>
    /\ op.name = "solve"
    /\ solves = 1

(***************************************************************************)
(* Properties of the end-to-end scenarios (checked under SpecScenario)     *)
(***************************************************************************)
SolveReturned == op.name = "solve" /\ op.status # "running"

Scalars(values) == [k \in 1..Len(values) |-> <<values[k]>>]

\* C11 as stated: the divider is solved with potentials [0, 3, 2.25, 0.75] and
\* fluxes [0.75, 0.75, 0.75, 0.75].
C11_DividerAsStated ==
    (scenario = "divider" /\ SolveReturned) =>
        /\ op.status = "Ok"
        /\ op.potentials = Scalars(<<Zero, Q(3, 1), Q(9, 4), Q(3, 4)>>)
        /\ op.fluxes = Scalars(<<Q(3, 4), Q(3, 4), Q(3, 4), Q(3, 4)>>)

\* C11 amended: the divider is solved with potentials [0, 3, 1.5, 0.75] (the
\* 2 ohm resistor drops 1.5 at 0.75) and fluxes [0.75, 0.75, 0.75, 0.75].
C11_DividerPotentials ==
    (scenario = "divider" /\ SolveReturned) =>
        /\ op.status = "Ok"
        /\ op.potentials = Scalars(<<Zero, Q(3, 1), Q(3, 2), Q(3, 4)>>)
        /\ op.fluxes = Scalars(<<Q(3, 4), Q(3, 4), Q(3, 4), Q(3, 4)>>)

\* the divider was built and its solve returned
C11_Witness ==
    /\ scenario = "divider"
    /\ Solved
    /\ Len(nodes) = 4
    /\ Len(elements) = 4
    /\ mnr.iters = 2

\* C12 as stated: the heat conductor chain is solved with potential 100 at
\* node 1 and flux 200 through the conductor.
C12_HeatChainAsStated ==
    (scenario = "heat_chain" /\ SolveReturned) =>
        /\ op.status = "Ok"
        /\ op.potentials[2] = <<Q(100, 1)>>
        /\ op.fluxes[2] = <<Q(200, 1)>>

\* C12 amended: node 0 is free and carries the source alone, so no flux
\* flows: the chain is solved with potential 0 at node 1 (and -100 at node 0)
\* and flux 0 through the conductor and the source.
C12_HeatChainAtRest ==
    (scenario = "heat_chain" /\ SolveReturned) =>
        /\ op.status = "Ok"
        /\ op.potentials = Scalars(<<Q(-100, 1), Zero, Zero>>)
        /\ op.fluxes = Scalars(<<Zero, Zero>>)

\* the heat conductor chain was built and its solve returned
C12_Witness ==
    /\ scenario = "heat_chain"
    /\ Solved
    /\ Len(nodes) = 3
    /\ Len(elements) = 2
    /\ elements[1].flux_calc = "observe_flux"

Proportional(e) == elements[e].flux_calc = "normal_flux"

\* (in.potential - out.potential) * gain[0], componentwise
Drop(el, N) ==
    LET i == N[el.input_node].potential
        o == N[el.output_node].potential
    IN  [c \in 1..Len(i) |-> XMul(XSub(i[c], o[c]), el.gain[1])]

\* the nodes as solve() has left them when it asks element e for its flux
RECURSIVE NodesBefore(_, _)
NodesBefore(e, N) ==
    IF e = 1 THEN N ELSE get_flux(e - 1, NodesBefore(e - 1, N), elements, {}).nodes

\* get_flux of a proportional element, at any moment
FluxIsDrop ==
    \A e \in 1..Len(elements) : Proportional(e) =>
        LET r == get_flux(e, nodes, elements, {})
        IN  r.ok /\ r.val = Drop(elements[e], nodes) /\ r.nodes = nodes

\* the fluxes a successful solve() reports for the proportional elements
ReportedFluxIsDrop ==
    (Running /\ op'.name = "solve" /\ op'.status = "Ok") =>
        \A e \in 1..Len(elements) : Proportional(e) =>
            op'.fluxes[e] =
                Drop(elements[e], NodesBefore(e, SetPotentials(mnr.guess, nodes)))

\* a resistor just built with resistance r
ResistorFluxIsOhm ==
    (Step.name = "add_element" /\ Step.args[1] = RESISTOR /\ Len(elements') > Len(elements)) =>
        LET e == Len(elements')
            i == nodes'[Step.args[2]].potential
            o == nodes'[Step.args[3]].potential
        IN  get_flux(e, nodes', elements', {}).val =
                [c \in 1..Len(i) |-> XDiv(XSub(i[c], o[c]), Step.args[4][1])]

\* C14: the flux get_flux returns for a proportional element, and the flux
\* solve() reports for it, is (in.potential - out.potential) * gain[0] at the
\* potentials the endpoints hold when it is evaluated; for a resistor built with
\* resistance r it is (in - out) / r; the evaluation changes no node potential.
C14_ProportionalFlux ==
    /\ []FluxIsDrop
    /\ [][ReportedFluxIsDrop /\ ResistorFluxIsOhm]_vars

\* a solve reported a non-zero flux through a conductor and a convection interface
C14_Witness ==
    /\ scenario = "wall"
    /\ Solved
    /\ Proportional(2) /\ Proportional(3)
    /\ op.fluxes[2] # <<Zero>> /\ op.fluxes[3] # <<Zero>>
    /\ op.fluxes[2] = Drop(elements[2], nodes)

(***************************************************************************)
(* Properties of the C interfaces (checked under SpecFfi)                  *)
(***************************************************************************)
\* C15: every matrix handle the caller was given and has not freed is still
\* allocated, whatever the calls made on it returned, and no call takes a box
\* of memory that is no longer allocated (no double free, no use after free).
C15_CallerHandlesStayAllocated ==
    /\ ffi.owned \subseteq ffi.heap
    /\ ~ffi.ub

\* the statuses by which a function reports a failure
FailureStatus(fn) ==
    CASE fn \in {"new_double_matrix", "new_double_identity_matrix", "multiply_matrix",
                 "augment_with", "subset", "transpose", "clone_double_matrix",
                 "basic_solve", "solve_with_preprocessors"} -> {"null"}
      [] fn \in {"inplace_row_swap", "inplace_row_scale", "inplace_scale", "inplace_row_add",
                 "inplace_scaled_row_add", "index_mut_double_matrix",
                 "add_declared_variable"} -> {"0"}
      [] fn = "try_inplace_invert" -> {"0", "1", "2", "3"}
      [] fn \in {"trace", "index_double_matrix"} -> {"NaN", "MIN"}
      [] OTHER -> {}

\* C16: no call unwinds into the caller; a call whose operation failed or
\* panicked returns a failure status of its function and a call whose operation
\* succeeded does not; try_inplace_invert returns c_uint::MAX exactly on
\* success and 0, 1, 2 or 3 otherwise.
C16_FailuresBecomeStatus ==
    LET c == ffi.call
    IN  /\ ~c.unwound
        /\ c.outcome # "ok" => c.ret \in FailureStatus(c.fn)
        /\ c.outcome = "ok" => c.ret \notin FailureStatus(c.fn)
        /\ c.fn = "try_inplace_invert" => (c.ret = "MAX" <=> c.outcome = "ok")

\* an inversion panicked and the caller was told 0
C16_Witness ==
    /\ ffi.call.fn = "try_inplace_invert"
    /\ ffi.call.outcome = "panic"
    /\ ffi.call.ret = "0"

(***************************************************************************)
(* Properties of nodes and elements outside a study (checked under         *)
(* SpecWeak)                                                               *)
(***************************************************************************)
\* element e refers to a node that was dropped
Dangling(e) == elements[e].input_node \in dropped \/ elements[e].output_node \in dropped

\* C17: a dropped node is freed although elements refer to it, and is never
\* read or written again: a constructor given its reference, get_flux of an
\* element that refers to it, and is_locked, lock_node, get_node_potential and
\* set_node_potential on its reference return a dropped-node error.
C17_DroppedNodeIsAnError ==
    /\ \A k \in dropped : nodes[k] = Freed
    /\ (op.name \in {"is_locked", "lock_node", "get_node_potential", "set_node_potential"}
           /\ op.args[1] \in dropped) => op.status = "DroppedNodeError"
    /\ (op.name = "add_element" /\ (op.args[2] \in dropped \/ op.args[3] \in dropped)) =>
           op.status = "DroppedNodeError"
    /\ (op.name = "get_flux" /\ Dangling(op.args[1])) =>
           op.status = "NodeRefsAlreadyDropped"

\* get_flux was called on an element one of whose nodes was dropped
C17_Witness ==
    /\ op.name = "get_flux"
    /\ Dangling(op.args[1])
    /\ op.status = "NodeRefsAlreadyDropped"
    /\ \E k \in dropped : nodes[k] = Freed

(***************************************************************************)
(* Properties of the command line tool (checked under SpecCli)             *)
(***************************************************************************)
\* C18: the process exits with 0 only if every stage succeeded, a process that
\* has ended has exit code 0 or 1, and the result file is written only after
\* the solve succeeded.
C18_ExitCodes ==
    /\ cli.exit = "0" => cli.passed = Stages
    /\ cli.pc = "exited" => cli.exit \in {"0", "1"}
    /\ cli.written => "solve" \in cli.passed

(***************************************************************************)
(* Properties of the jacobian loop (checked under SpecRounded and, with    *)
(* exact arithmetic, under SpecNewton)                                     *)
(***************************************************************************)
\* C19: when a column is started every earlier perturbation is undone, while a
\* column is computed only its own variable differs from the guess at the
\* start of the iteration, and when the jacobian is built the guess is the
\* guess at the start of the iteration.
C19_PerturbationsRestored ==
    /\ mnr.pc \in {"perturb", "invert"} => mnr.guess = mnr.iterGuess
    /\ mnr.pc \in {"column", "restore"} =>
           \A k \in DOMAIN mnr.guess : k # mnr.vars[mnr.j] => mnr.guess[k] = mnr.iterGuess[k]

(***************************************************************************)
(* Properties of the key order (checked under SpecNewton)                  *)
(***************************************************************************)
\* column j of the jacobian holds the difference quotients in the variable
\* vars[j]
ColumnIsOfKey ==
    mnr.pc = "restore" =>
        \A i \in 1..Len(mnr.f) :
            mnr.jacobian[i][mnr.j] =
                XDiv(XSub(EvalF(mnr.f[i], Perturb(mnr.iterGuess, mnr.vars[mnr.j]),
                                nodes, elements).val,
                          EvalF(mnr.f[i], mnr.iterGuess, nodes, elements).val), _DX_)

\* vars lists every key of the guess once
OrderCoversKeys ==
    mnr.pc \in {"perturb", "column", "restore", "invert", "residual", "test"} =>
        /\ Len(mnr.vars) = Cardinality(DOMAIN mnr.guess)
        /\ {mnr.vars[j] : j \in 1..Len(mnr.vars)} = DOMAIN mnr.guess

\* the step of an iteration subtracts delta[j] from the variable vars[j]
StepIsOfKey ==
    (mnr.pc = "test" /\ mnr'.pc = "check") =>
        \A j \in 1..Len(mnr.vars) :
            mnr'.guess[mnr.vars[j]] = XSub(mnr.guess[mnr.vars[j]], mnr'.deltas[j])

KeysKept == DOMAIN mnr'.guess = DOMAIN mnr.guess /\ mnr'.vars = mnr.vars

\* C20: one order of the keys serves the columns of the jacobian and the step:
\* column j is built by perturbing vars[j], delta[j] is subtracted from
\* vars[j], vars lists every key once so that every variable is updated once,
\* and the keys of the guess never change.
C20_OneKeyOrder ==
    /\ [](ColumnIsOfKey /\ OrderCoversKeys)
    /\ [][StepIsOfKey /\ KeysKept]_vars

\* a step was applied to two variables with different deltas
C20_Witness ==
    /\ mnr.pc = "check"
    /\ mnr.iters = 1
    /\ Len(mnr.vars) = 2
    /\ mnr.deltas[1] # mnr.deltas[2]
    /\ \A j \in 1..2 :
           mnr.guess[mnr.vars[j]] = XSub(mnr.iterGuess[mnr.vars[j]], mnr.deltas[j])

(***************************************************************************)
(* Properties of the element lists (checked under SpecWeak and SpecStudy)  *)
(***************************************************************************)
\* the calls of try_new that can be made in a state: the endpoints and the
\* flags connect_to_input and connect_to_output
TryNewCalls == (1..Len(nodes)) \X (1..Len(nodes)) \X BOOLEAN \X BOOLEAN

TryNewOf(c) ==
    try_new(nodes, <<One>>, c[1], c[2], "normal_flux", FALSE, c[3], c[4], Len(elements) + 1)

\* what a successful call c leaves in node k
ListsAfter(c, k) ==
    [nodes[k] EXCEPT
        !.outputs = IF k = c[1] /\ c[3] THEN Append(@, Len(elements) + 1) ELSE @,
        !.inputs  = IF k = c[2] /\ c[4] THEN Append(@, Len(elements) + 1) ELSE @]

TryNewLists ==
    \A c \in TryNewCalls :
        /\ TryNewOf(c).ok <=> (c[1] \notin dropped /\ c[2] \notin dropped)
        /\ TryNewOf(c).ok =>
               \A k \in 1..Len(nodes) : TryNewOf(c).nodes[k] = ListsAfter(c, k)
        /\ ~TryNewOf(c).ok =>
               TryNewOf(c).err = "DroppedNodeError" /\ TryNewOf(c).nodes = nodes

ListsOf(N) == [k \in 1..Len(N) |-> <<N[k].inputs, N[k].outputs>>]

\* a constructor that fails leaves every list as it was
FailedConstructorKeepsLists ==
    (op'.name = "add_element" /\ op'.status # "Ok") => ListsOf(nodes') = ListsOf(nodes)

\* C21: a successful try_new appends the new element to the outputs of the
\* input endpoint iff connect_to_input and to the inputs of the output endpoint
\* iff connect_to_output and changes nothing else; when an endpoint does not
\* resolve it fails with DroppedNodeError and changes no list.
C21_TryNewAppends == []TryNewLists /\ [][FailedConstructorKeepsLists]_vars

\* an element was connected to a node while the reference of another node is
\* dropped
C21_Witness ==
    /\ op.name = "add_element" /\ op.status = "Ok"
    /\ dropped # {}
    /\ \E k \in 1..Len(nodes) : nodes[k].outputs # <<>> /\ nodes[k].inputs # <<>>


\* the elements on the lists of node k are elements of the study
ListsInRange(k) ==
    /\ \A i \in 1..Len(nodes[k].inputs) : nodes[k].inputs[i] \in 1..Len(elements)
    /\ \A i \in 1..Len(nodes[k].outputs) : nodes[k].outputs[i] \in 1..Len(elements)

\* C22: in every state of a study every element on a node's inputs list has
\* that node as its output node and every element on a node's outputs list has
\* that node as its input node.
C22_ListsNameEndpoints ==
    \A k \in 1..Len(nodes) :
        /\ ListsInRange(k)
        /\ \A i \in 1..Len(nodes[k].inputs) : elements[nodes[k].inputs[i]].output_node = k
        /\ \A i \in 1..Len(nodes[k].outputs) : elements[nodes[k].outputs[i]].input_node = k

\* a solved study in which a node has an element on each of its lists and the
\* two elements are not the same
C22_Witness ==
    /\ op.name = "solve" /\ op.status = "Ok"
    /\ \E k \in 1..Len(nodes) :
          /\ nodes[k].inputs # <<>> /\ nodes[k].outputs # <<>>
          /\ nodes[k].inputs[1] # nodes[k].outputs[1]
          /\ elements[nodes[k].inputs[1]].input_node # k


(***************************************************************************)
(* Properties of observed elements (voltage_source, temperature_delta)     *)
(***************************************************************************)
Observed == { e \in 1..Len(elements) : elements[e].flux_calc = "observe_flux" }

\* e is on list l
OnList(e, l) == \E i \in 1..Len(l) : l[i] = e

\* the nodes that have e on their inputs list, and on their outputs list
AsInput(e) == { k \in 1..Len(nodes) : OnList(e, nodes[k].inputs) }

AsOutput(e) == { k \in 1..Len(nodes) : OnList(e, nodes[k].outputs) }

\* C23: an observed element is on no list of the node it drives: when it
\* drives its output node it is on the outputs list of its input node only, and
\* when it drives its input node on the inputs list of its output node only.
C23_NotOnDrivenNode ==
    \A e \in Observed :
        /\ ~OnList(e, nodes[SubNode(elements[e])].inputs)
        /\ ~OnList(e, nodes[SubNode(elements[e])].outputs)
        /\ elements[e].drives_output =>
               AsOutput(e) = {elements[e].input_node} /\ AsInput(e) = {}
        /\ ~elements[e].drives_output =>
               AsInput(e) = {elements[e].output_node} /\ AsOutput(e) = {}


\* the errors of RefCell::try_borrow and RefCell::try_borrow_mut
BorrowErrors == {"BorrowError", "BorrowMutError"}

\* C24: in a network built by the bundled constructors no get_flux, no
\* get_flux_discrepancy and no solve fails with an already-borrowed error.
C24_NeverAlreadyBorrowed ==
    /\ op.name \in {"solve", "get_flux"} => op.status \notin BorrowErrors
    /\ ~Running =>
           \A k \in 1..Len(nodes) :
               get_flux_discrepancy(k, nodes, elements, {k}).err \notin BorrowErrors


Max(a, b) == IF a >= b THEN a ELSE b

\* the greatest number of observe_flux calls that are active at once while
\* the fluxes of todo are evaluated as Balance evaluates them: a call that
\* fails on its borrows is counted, it has been entered
RECURSIVE Nesting(_, _, _, _)
Nesting(todo, N, els, held) ==
    IF todo = <<>> THEN 0
    ELSE LET el == els[Head(todo)[2]]
             r  == Balance(<<Head(todo)>>, VZero(Len(el.gain)), N, els, held)
             d  == IF el.input_node \in dropped \/ el.output_node \in dropped THEN 0
                   ELSE IF el.flux_calc # "observe_flux" THEN 0
                   ELSE IF ObserveBorrows(el, held) # "" THEN 1
                   ELSE 1 + Nesting(Incident(N[SubNode(el)]), ObserveWrite(el, N), els,
                                    held \cup {SubNode(el)})
         IN  IF ~r.ok THEN d ELSE Max(d, Nesting(Tail(todo), r.nodes, els, held))

\* the nesting reached by get_flux of element e, and by get_flux_discrepancy
\* of node k called on a borrow of k
NestingOfElement(e) == Nesting(<< <<1, e>> >>, nodes, elements, {})

NestingOfNode(k) == Nesting(Incident(nodes[k]), nodes, elements, {k})

\* every evaluation that can be started in the state nests at most n calls
NestingWithin(n) ==
    /\ \A e \in 1..Len(elements) : NestingOfElement(e) <= n
    /\ \A k \in 1..Len(nodes) : NestingOfNode(k) <= n

\* C25 as stated: get_flux and get_flux_discrepancy nest at most as many
\* observe_flux calls as there are nodes.
C25_NestingWithinNodeCount == NestingWithin(Len(nodes))

\* a get_flux returns a value or an error, and an evaluation that nests more
\* calls than there are nodes ends with the error of the mutable borrow
GetFluxEnds ==
    (op'.name = "get_flux" /\ nodes # <<>>) =>
        /\ op'.status \in {"Ok", "NodeRefsAlreadyDropped"} \cup BorrowErrors
        /\ op'.status = "Ok" <=> op'.fluxes # <<>>
        /\ NestingOfElement(op'.args[1]) > Len(nodes) => op'.status = "BorrowMutError"

\* C25: every get_flux and get_flux_discrepancy of a finite network ends with
\* a value or an error, also when observed elements drive each other's
\* dominant nodes in a cycle: at most one observe_flux call per node passes its
\* borrows and one more call is entered that fails on try_borrow_mut, so the
\* nesting of observe_flux calls is at most the number of nodes plus one.
C25_NestingBounded == []NestingWithin(Len(nodes) + 1) /\ [][GetFluxEnds]_vars

\* get_flux of a source in a loop of two sources on two nodes: three nested
\* calls, ended by the error of the mutable borrow
C25_Witness ==
    /\ op.name = "get_flux" /\ op.status = "BorrowMutError"
    /\ Len(nodes) = 2
    /\ NestingOfElement(op.args[1]) = 3


\* the last call added an observed element
ObservedAdded ==
    /\ op.name = "add_element" /\ op.status = "Ok"
    /\ elements # <<>>
    /\ elements[Len(elements)].flux_calc = "observe_flux"

\* C26: the potential a constructor of an observed element presets on the
\* node it locks is the potential observe_flux assigns to that node from the
\* same dominant potential and gain, when the output node is driven and when
\* the input node is driven.
C26_PresetIsObserved ==
    ObservedAdded =>
        nodes[SubNode(elements[Len(elements)])].potential
            = ObservedPotential(elements[Len(elements)], nodes)


(***************************************************************************)
(* Properties of the residual closures of a study (checked under           *)
(* SpecStudy)                                                              *)
(***************************************************************************)
\* argument maps of the closures: a value for every unknown of the study
Arguments == [Independents(nodes) -> {One, Q(2, 1)}]

Closures == { Dependents(nodes, 1)[i] : i \in 1..Len(Dependents(nodes, 1)) }

\* the node table an earlier evaluation of closure g on X leaves behind
NodesAfter(g, X) == EvalNode(g, X, nodes, elements).nodes

\* C27: the value the residual closure of a node returns on an argument map
\* depends on the map and on the boundary potentials only: after an earlier
\* evaluation of any closure on any map it returns the value it returns
\* without that evaluation.
C27_ResidualIsFunctionOfArgument ==
    \A f \in Closures, g \in Closures : \A X \in Arguments, Y \in Arguments :
        EvalNode(f, X, NodesAfter(g, Y), elements).val
            = EvalNode(f, X, nodes, elements).val


(***************************************************************************)
(* Properties of the driven nodes (checked under SpecStudy)                *)
(***************************************************************************)
\* no node is driven by two observed elements, and every driven node is locked
OneDriverEach ==
    /\ \A e1 \in Observed, e2 \in Observed :
           SubNode(elements[e1]) = SubNode(elements[e2]) => e1 = e2
    /\ \A e \in Observed : nodes[SubNode(elements[e])].is_locked

\* the call of the step is add_element of a source on two existing nodes
SourceCalled ==
    /\ op'.name = "add_element"
    /\ op'.args[1] \in {VOLTAGE_SOURCE, TEMPERATURE_DELTA}
    /\ op'.args[2] \in 1..Len(nodes) /\ op'.args[3] \in 1..Len(nodes)
    /\ <<nodes, elements, op>> # <<nodes', elements', op'>>

\* a source that is added drives a node that was not locked before
DrivesUnlockedNode ==
    (SourceCalled /\ op'.status = "Ok") =>
        /\ elements' = Append(elements, elements'[Len(elements')])
        /\ ~nodes[SubNode(elements'[Len(elements')])].is_locked

\* a source between two locked nodes is refused and nothing changes
LockedPairRefused ==
    (SourceCalled /\ nodes[op'.args[2]].is_locked /\ nodes[op'.args[3]].is_locked) =>
        /\ op'.status = "ElementCreationError"
        /\ nodes' = nodes
        /\ elements' = elements

\* C28: after any sequence of successful and failed add_element calls every
\* node is driven by at most one observed element, the node an observed
\* element drives is locked, no node that was locked before the element was
\* added is driven by it, and a source between two locked nodes fails with
\* ElementCreationError and leaves potentials, locks and lists unchanged.
C28_OneDriverPerNode == []OneDriverEach /\ [][DrivesUnlockedNode /\ LockedPairRefused]_vars

\* a second source between the two nodes of a first one was refused
C28_Witness ==
    /\ op.name = "add_element" /\ op.status = "ElementCreationError"
    /\ Observed # {}
    /\ \E k \in 1..Len(nodes) : k \notin grounded /\ nodes[k].is_locked


\* the imbalance of the node element e drives, e's own flux counted with
\* the fluxes of the elements on that node's lists: as an input of its output
\* node, or as an output of its input node; <<>> when an evaluation fails
DrivenImbalance(e) ==
    LET el   == elements[e]
        own  == get_flux(e, nodes, elements, {})
        rest == get_flux_discrepancy(SubNode(el), own.nodes, elements, {SubNode(el)})
    IN  IF ~own.ok \/ ~rest.ok THEN <<>>
        ELSE IF el.drives_output THEN VAdd(rest.val, own.val)
        ELSE VSub(rest.val, own.val)

\* C29: the flux an observed element reports closes the balance of the node it
\* drives, when it drives its output node and when it drives its input node.
C29_ObservedFluxBalances ==
    ~Running =>
        \A e \in Observed :
            \A c \in 1..Len(DrivenImbalance(e)) : DrivenImbalance(e)[c] = Zero


(***************************************************************************)
(* Properties of a closure error in the jacobian loop (checked under       *)
(* SpecNewton)                                                             *)
(***************************************************************************)
\* the call ended with the error of a closure evaluated for column mnr.j
FailedInColumn ==
    /\ mnr.pc = "done" /\ mnr.result = "ClosureError"
    /\ mnr.j \in 1..Len(mnr.vars)

\* a closure error in a column ends the call in that step, with the guess as
\* it was perturbed and no closure evaluated after the one that failed
ColumnErrorReturnsAtOnce ==
    (mnr.pc = "column" /\ mnr'.pc # "restore") =>
        /\ mnr'.pc = "done" /\ mnr'.result = "ClosureError"
        /\ mnr'.guess = mnr.guess /\ mnr'.j = mnr.j
        /\ mnr'.evals <= mnr.evals + Len(mnr.f)

\* C30: a closure error while column j is evaluated is returned at once and
\* leaves the guess with vars[j] still incremented by _DX_ and every other
\* variable at its value of the start of the iteration, in which the steps of
\* all earlier iterations are applied; where every closure of the columns
\* succeeded the guess is the one of the start of the iteration.
C30_ColumnErrorLeavesPerturbation ==
    /\ [](FailedInColumn => mnr.guess = Perturb(mnr.iterGuess, mnr.vars[mnr.j]))
    /\ []((mnr.pc = "done" /\ mnr.result = "ClosureError" /\ ~FailedInColumn) =>
              mnr.guess = mnr.iterGuess)
    /\ [](mnr.pc \in {"invert", "residual", "test"} => mnr.guess = mnr.iterGuess)
    /\ [][ColumnErrorReturnsAtOnce]_vars
    /\ [][(mnr.pc = "test" /\ mnr'.pc = "check") =>
             mnr'.guess = ApplyStep(mnr.iterGuess, mnr.vars, mnr'.deltas)]_vars
    /\ [](mnr.pc = "build" => mnr.iterGuess = mnr.guess)

\* a closure failed in a column of the second iteration of a system of two
\* variables: the step of the first iteration is applied and one variable is
\* left incremented
C30_Witness ==
    /\ FailedInColumn
    /\ mnr.iters = 2
    /\ Len(mnr.vars) = 2
    /\ mnr.iterGuess # mnr.guess0
    /\ mnr.guess[mnr.vars[mnr.j]] = XAdd(mnr.iterGuess[mnr.vars[mnr.j]], _DX_)
    /\ \A k \in DOMAIN mnr.guess : k # mnr.vars[mnr.j] => mnr.guess[k] = mnr.iterGuess[k]


====
